---------------------------- MODULE Spec2Model ----------------------------
(***************************************************************************)
(* A model of the devision backend (Django REST): the relational store of  *)
(* accounts/models.py and hackathons/models.py, the cookie-or-header token *)
(* authentication of accounts/authentication.py, and the request handlers  *)
(* and payload builders of api/views.py and accounts/views.py.             *)
(*                                                                         *)
(* Text values (query parameters, emails, usernames) are sequences of      *)
(* one-character strings so that parsing and normalisation are computed.   *)
(***************************************************************************)
EXTENDS Integers, Sequences, FiniteSets, TLC

VARIABLES
    users,        \* User rows: id -> record
    tokens,       \* authtoken rows: key -> user id
    hackathons,   \* Hackathon rows: id -> [name, start_date, end_date]
    teams,        \* Team rows: set of ids
    memberships,  \* TeamMembership rows: set of <<user, team>>
    entries,      \* HackathonTeam rows: <<hackathon, team>> -> placement
    friendships,  \* Friendship rows: <<user, friend>> -> created_at
    now,          \* the clock read by timezone.now()
    req,          \* the request being answered
    resp,         \* the response to it
    atBuild,      \* the store as the last build_bootstrap_payload found it
    issued        \* the auth_token cookies set so far, each with its user

vars == <<users, tokens, hackathons, teams, memberships, entries, friendships,
          now, req, resp, atBuild, issued>>

\* The tables no view writes.
tables == <<hackathons, teams, memberships, entries, friendships>>

store == <<users, tokens, hackathons, teams, memberships, entries, friendships>>

-----------------------------------------------------------------------------
(* Bounds of the model *)

\* longest query-parameter text enumerated for parse_pagination
MaxLen == 2

\* characters of the enumerated query-parameter texts
Alphabet == {"-", "0", "1", "5", "6", "x"}

-----------------------------------------------------------------------------
(* Text helpers *)

Digits == {"0", "1", "2", "3", "4", "5", "6", "7", "8", "9"}

DigitVal(c) ==
    CASE c = "0" -> 0 [] c = "1" -> 1 [] c = "2" -> 2 [] c = "3" -> 3
      [] c = "4" -> 4 [] c = "5" -> 5 [] c = "6" -> 6 [] c = "7" -> 7
      [] c = "8" -> 8 [] c = "9" -> 9

RECURSIVE DigitsValue(_)
DigitsValue(s) ==
    IF s = <<>> THEN 0
    ELSE DigitsValue(SubSeq(s, 1, Len(s) - 1)) * 10 + DigitVal(s[Len(s)])

\* All texts over Alphabet of length at most n.
RECURSIVE TextsUpTo(_)
TextsUpTo(n) ==
    IF n = 0 THEN {<<>>}
    ELSE LET shorter == TextsUpTo(n - 1)
         IN  shorter \cup {Append(s, c) : s \in shorter, c \in Alphabet}

\* A query parameter that the request does not carry.
Absent == <<"<absent>">>

\* Python's int(text): an optional sign, then one or more decimal digits;
\* anything else raises ValueError (ok = FALSE).
int(s) ==
    LET signed == Len(s) > 0 /\ s[1] \in {"-", "+"}
        body   == IF signed THEN Tail(s) ELSE s
        ok     == body # <<>> /\ \A i \in 1..Len(body) : body[i] \in Digits
    IN  [ok  |-> ok,
         val |-> IF ~ok THEN 0
                 ELSE IF signed /\ s[1] = "-" THEN 0 - DigitsValue(body)
                 ELSE DigitsValue(body)]

Max(a, b) == IF a >= b THEN a ELSE b
Min(a, b) == IF a <= b THEN a ELSE b

-----------------------------------------------------------------------------
(* api/views.py: parse_pagination *)

\* query_params.get(name, default) followed by int(): an absent parameter
\* yields the integer default.
QueryInt(raw, default) ==
    IF raw = Absent THEN [ok |-> TRUE, val |-> default] ELSE int(raw)

\* (None, None) of the source.
NoPage == [ok |-> FALSE, offset |-> 0, limit |-> 0]

\* parse_pagination, had it fallen back to the defaults on a ValueError.
parse_pagination_defaulting(rawOffset, rawLimit) ==
    LET offset == QueryInt(rawOffset, 0)
        limit  == QueryInt(rawLimit, 10)
    IN  [ok     |-> TRUE,
         offset |-> Max(IF offset.ok THEN offset.val ELSE 0, 0),
         limit  |-> Max(1, Min(IF limit.ok THEN limit.val ELSE 10, 50))]

\* parse_pagination without the max/min lines.
parse_pagination_unclamped(rawOffset, rawLimit) ==
    LET o == QueryInt(rawOffset, 0)
        l == QueryInt(rawLimit, 10)
    IN  IF ~o.ok \/ ~l.ok THEN NoPage
        ELSE [ok |-> TRUE, offset |-> o.val, limit |-> l.val]

\* parse_pagination(request) on the raw offset and limit parameters.
parse_pagination(rawOffset, rawLimit) ==
    LET o == QueryInt(rawOffset, 0)
        l == QueryInt(rawLimit, 10)
    IN  IF ~o.ok \/ ~l.ok THEN NoPage
        ELSE [ok     |-> TRUE,
              offset |-> Max(o.val, 0),
              limit  |-> Max(Min(l.val, 50), 1)]

-----------------------------------------------------------------------------
(* Identifiers and values of the store *)

UserIds      == {"u1", "u2", "u3", "u4"}
Keys         == {"k1", "k2", "k3", "k4"}

\* Python's None where an id, a key or a team is expected.
None == "none"

\* placement = NULL (models.py: null=True)
Unset == -1

\* Datetimes are counted in ticks; a unix timestamp is whole seconds.
TicksPerSecond == 2

\* int(dt.timestamp())
timestamp(dt) == dt \div TicksPerSecond

\* Python's `x or d` on integers: 0 is falsy.
OrInt(x, d) == IF x = 0 THEN d ELSE x

\* The range of a sequence.
Range(s) == {s[i] : i \in 1..Len(s)}

\* s[offset : offset + limit] of Python and of a queryset, offset, limit >= 0.
Slice(s, offset, limit) ==
    SubSeq(s, offset + 1, Min(Len(s), offset + limit))

-----------------------------------------------------------------------------
(* api/views.py: gradients and xp_needed *)

\* Colours a gradient is drawn from, as the integers random.randint returns;
\* f"{n:06x}" prints each injectively.
Colours == {0, 16777215}

_hex_distance(a, b) == IF a >= b THEN a - b ELSE b - a

\* The values generate_gradient can return: the loop redraws the second
\* colour until it is at least 10000 away from the first.
generate_gradient ==
    {<<first, second>> : first \in Colours, second \in Colours} \
        {<<first, second>> \in Colours \X Colours :
            _hex_distance(first, second) < 10000}

compute_xp_needed(level, xp) ==
    LET target == Max(level, 1) * 100
    IN  Max(target - xp, 0)

\* ensure_user_defaults, had it passed xp_needed where compute_xp_needed
\* takes xp.
ensure_user_defaults_from_needed(instance, g) ==
    LET withGradient ==
            IF instance.profile_gradient = <<>>
            THEN [instance EXCEPT !.profile_gradient = g]
            ELSE instance
        expected_needed ==
            compute_xp_needed(OrInt(instance.level, 1), OrInt(instance.xp_needed, 0))
        withNeeded ==
            IF withGradient.xp_needed # expected_needed
            THEN [withGradient EXCEPT !.xp_needed = expected_needed]
            ELSE withGradient
    IN  [instance |-> withNeeded, changed |-> withNeeded # instance]

\* ensure_user_defaults, had it drawn a gradient whatever the instance holds.
ensure_user_defaults_redrawing(instance, g) ==
    LET redrawn == [instance EXCEPT !.profile_gradient = g]
    IN  [instance |-> redrawn, changed |-> redrawn # instance]

\* ensure_user_defaults on an in-memory instance; g is what generate_gradient
\* returns if it is called.  changed is the source's flag.
ensure_user_defaults(instance, g) ==
    LET withGradient ==
            IF instance.profile_gradient = <<>>
            THEN [instance EXCEPT !.profile_gradient = g]
            ELSE instance
        expected_needed ==
            compute_xp_needed(OrInt(instance.level, 1), OrInt(instance.xp, 0))
        withNeeded ==
            IF withGradient.xp_needed # expected_needed
            THEN [withGradient EXCEPT !.xp_needed = expected_needed]
            ELSE withGradient
    IN  [instance |-> withNeeded, changed |-> withNeeded # instance]

\* save_defaults, had update_fields named the gradient alone.
save_defaults_gradient_only(db, uid, instance) ==
    [db EXCEPT ![uid] = [@ EXCEPT !.profile_gradient = instance.profile_gradient]]

\* user.save(update_fields=["profile_gradient", "xp_needed"]): the two columns
\* of the row are overwritten from the instance.
save_defaults(db, uid, instance) ==
    [db EXCEPT ![uid] = [@ EXCEPT !.profile_gradient = instance.profile_gradient,
                                  !.xp_needed = instance.xp_needed]]

\* ensure_user_defaults with its conditional save: the table and the instance after.
EnsureSaved(db, uid, instance, g) ==
    LET r == ensure_user_defaults(instance, g)
    IN  [db       |-> IF r.changed THEN save_defaults(db, uid, r.instance) ELSE db,
         instance |-> r.instance]

-----------------------------------------------------------------------------
(* Querysets *)

\* The results order_by(key)[:n] can produce for the rows S: ascending in
\* key[row]; the order of rows with equal keys is the database's choice.
RECURSIVE OrderedPrefixes(_, _, _)
OrderedPrefixes(S, key, n) ==
    IF S = {} \/ n <= 0 THEN {<<>>}
    ELSE LET least  == CHOOSE k \in {key[x] : x \in S} :
                           \A y \in S : k <= key[y]
             firsts == {x \in S : key[x] = least}
         IN  UNION {{<<x>> \o rest : rest \in OrderedPrefixes(S \ {x}, key, n - 1)} :
                        x \in firsts}

\* order_by(key)[offset : offset + limit]
OrderedSlices(S, key, offset, limit) ==
    {Slice(s, offset, limit) : s \in OrderedPrefixes(S, key, offset + limit)}

\* HackathonTeam.objects.filter(team__members=user): one row per entry of a
\* team the user is a member of.
EntriesOfUser(uid) ==
    {e \in DOMAIN entries : <<uid, e[2]>> \in memberships}

\* annotate(participant_estimate=Count("hackathon_teams__team__members",
\* distinct=True)): the distinct member ids over the rows of the hackathon
\* joined with its entries, their teams and the teams' memberships.
participant_estimate(h) ==
    Cardinality({m[1] : m \in {x \in memberships : <<h, x[2]>> \in DOMAIN entries}})

\* Count("hackathon_teams__team__members") without distinct: one per
\* membership of an entered team.
participants_count_joined(h) ==
    Cardinality({m \in memberships : <<h, m[2]>> \in DOMAIN entries})

\* Hackathon.participants_count: distinct users over the teams entered.
participants_count(h) ==
    Cardinality({u \in DOMAIN users :
        \E t \in teams : <<u, t>> \in memberships /\ <<h, t>> \in DOMAIN entries})

\* HackathonTeam.objects.filter(hackathon=h, team__members=user).first(): the
\* model's default ordering is (placement, created_at).  Where NULL placements
\* sort is the database's choice (nullsFirst); creation order decides among
\* equal placements, so any of them can come first.  None when there is no row.
FirstEntryTeams(h, uid, nullsFirst) ==
    LET rows   == {e \in EntriesOfUser(uid) : e[1] = h}
        nulls  == {e \in rows : entries[e] = Unset}
        ranked == rows \ nulls
        best   == {e \in ranked : \A o \in ranked : entries[e] <= entries[o]}
    IN  IF rows = {} THEN {None}
        ELSE IF nulls # {} /\ (nullsFirst \/ ranked = {}) THEN {e[2] : e \in nulls}
        ELSE {e[2] : e \in best}

\* The functions on D that take at each d a value of allowed[d].
RECURSIVE Choices(_, _)
Choices(D, allowed) ==
    IF D = {} THEN {<<>>}
    ELSE LET d == CHOOSE x \in D : TRUE
         IN  {(d :> v) @@ r : v \in allowed[d], r \in Choices(D \ {d}, allowed)}

\* One .first() result per hackathon of H, as one database state answers them.
FirstPicks(H, uid, nullsFirst) ==
    Choices(H, [h \in H |-> FirstEntryTeams(h, uid, nullsFirst)])

-----------------------------------------------------------------------------
(* api/views.py: serializers *)

\* serialize_team_members / serialize_team: the team and its members other
\* than exclude_user.
serialize_team(t, exclude_user) ==
    [uuid    |-> t,
     members |-> {u \in DOMAIN users : <<u, t>> \in memberships /\ u # exclude_user}]

\* The leaderboards serialize_hackathon can embed: placed entries by
\* ascending placement, the first 10; `leaderboard or None` is <<>> here.
EmbeddedLeaderboards(h) ==
    LET rows == {e \in DOMAIN entries : e[1] = h /\ entries[e] # Unset}
        key  == [e \in rows |-> entries[e]]
    IN  {[i \in 1..Len(s) |-> [placement |-> entries[s[i]], uuid |-> s[i][2]]] :
            s \in OrderedPrefixes(rows, key, 10)}

\* serialize_hackathon(hackathon, current_user, include_user_team, ...): team
\* is what .first() returned (None for no entry); the leaderboard is passed in.
serialize_hackathon(h, current_user, include_user_team, team, leaderboard) ==
    LET entry == include_user_team /\ current_user # None /\ team # None
    IN  [uuid         |-> h,
         name         |-> hackathons[h].name,
         start_date   |-> timestamp(hackathons[h].start_date),
         end_date     |-> timestamp(hackathons[h].end_date),
         participants |-> participants_count(h),
         team         |-> IF entry THEN <<serialize_team(team, current_user)>> ELSE <<>>,
         placement    |-> IF entry THEN entries[<<h, team>>] ELSE Unset,
         leaderboard  |-> leaderboard]

\* serialize_friend(friendship, current_user) on the table db: the other side
\* is read from the table, given its defaults and saved.
serialize_friend(db, f, current_user, g) ==
    LET other == IF f[1] = current_user THEN f[2] ELSE f[1]
        r     == EnsureSaved(db, other, db[other], g)
    IN  [db      |-> r.db,
         payload |-> [uuid             |-> other,
                      friends_since    |-> timestamp(friendships[f]),
                      profile_gradient |-> r.instance.profile_gradient,
                      level            |-> r.instance.level]]

\* What generate_gradient may be asked for by ensure_user_defaults(instance).
GradientDraws(instance) ==
    IF instance.profile_gradient = <<>> THEN generate_gradient ELSE {<<>>}

\* [serialize_friend(f, user) for f in fs]: every outcome of the draws.
RECURSIVE serialize_friends(_, _, _)
serialize_friends(db, fs, current_user) ==
    IF fs = <<>> THEN {[db |-> db, out |-> <<>>]}
    ELSE LET f      == Head(fs)
             other  == IF f[1] = current_user THEN f[2] ELSE f[1]
             firsts == {serialize_friend(db, f, current_user, g) :
                            g \in GradientDraws(db[other])}
         IN  UNION {{[db |-> rest.db, out |-> <<r.payload>> \o rest.out] :
                         rest \in serialize_friends(r.db, Tail(fs), current_user)} :
                     r \in firsts}

\* serialize_user_core(user, current_user): the instance is the caller's
\* object, which the table may have moved on from.
serialize_user_core(db, uid, instance, g) ==
    LET r == EnsureSaved(db, uid, instance, g)
    IN  [db      |-> r.db,
         payload |-> [uuid             |-> uid,
                      email            |-> r.instance.email,
                      username         |-> r.instance.username,
                      level            |-> r.instance.level,
                      xp               |-> r.instance.xp,
                      xp_needed        |-> r.instance.xp_needed,
                      profile_gradient |-> r.instance.profile_gradient]]

-----------------------------------------------------------------------------
(* api/views.py: build_bootstrap_payload *)

\* [:5] of the upcoming entries and of the friendships
BootstrapHackathons == 5
BootstrapFriends == 5

\* Entries of the user's teams in hackathons that have not ended at time t.
UpcomingEntries(uid, t) ==
    {e \in EntriesOfUser(uid) : hackathons[e[1]].end_date >= t}

\* Friendship.objects.filter(Q(user=user) | Q(friend=user))
FriendshipsOf(uid) ==
    {f \in DOMAIN friendships : f[1] = uid \/ f[2] = uid}

\* The slice below, had it been ordered by end_date.
upcoming_entries_by_end(uid, t) ==
    LET rows == UpcomingEntries(uid, t)
    IN  OrderedPrefixes(rows, [e \in rows |-> hackathons[e[1]].end_date],
                        BootstrapHackathons)

\* upcoming_entries of build_bootstrap_payload: order_by start_date, [:5]
upcoming_entries(uid, t) ==
    LET rows == UpcomingEntries(uid, t)
    IN  OrderedPrefixes(rows, [e \in rows |-> hackathons[e[1]].start_date],
                        BootstrapHackathons)

\* The slice below, had it been ordered by created_at ascending.
recent_friendships_oldest_first(uid) ==
    LET rows == FriendshipsOf(uid)
    IN  OrderedPrefixes(rows, [f \in rows |-> friendships[f]], BootstrapFriends)

\* the friendships of build_bootstrap_payload: order_by -created_at, [:5]
recent_friendships(uid) ==
    LET rows == FriendshipsOf(uid)
    IN  OrderedPrefixes(rows, [f \in rows |-> 0 - friendships[f]], BootstrapFriends)

\* The hackathon payloads for a list of entries, include_user_team=True.
HackathonPayloads(es, uid, pick) ==
    [i \in 1..Len(es) |->
        serialize_hackathon(es[i][1], uid, TRUE, pick[es[i][1]], <<>>)]

\* build_bootstrap_payload(user): every outcome, as the User table after it
\* and the payload.  db is the User table, instance the caller's user object.
build_bootstrap_payload(db, uid, instance) ==
    UNION {UNION {UNION {UNION {
        {[db         |-> uc.db,
          user       |-> <<uc.payload>>,
          hackathons |-> HackathonPayloads(es, uid, pick),
          friends    |-> fr.out] :
            uc \in {serialize_user_core(fr.db, uid, instance, g) :
                        g \in GradientDraws(instance)}} :
        fr \in serialize_friends(db, fs, uid)} :
        fs \in recent_friendships(uid)} :
        pick \in UNION {FirstPicks({e[1] : e \in Range(es)}, uid, nf) :
                            nf \in BOOLEAN}} :
        es \in upcoming_entries(uid, now)}

-----------------------------------------------------------------------------
(* accounts/models.py: UserManager *)

LowerChar(c) ==
    CASE c = "A" -> "a" [] c = "B" -> "b" [] c = "C" -> "c" [] c = "D" -> "d"
      [] c = "E" -> "e" [] c = "F" -> "f" [] c = "G" -> "g" [] c = "H" -> "h"
      [] c = "I" -> "i" [] c = "J" -> "j" [] c = "K" -> "k" [] c = "L" -> "l"
      [] c = "M" -> "m" [] c = "N" -> "n" [] c = "O" -> "o" [] c = "P" -> "p"
      [] c = "Q" -> "q" [] c = "R" -> "r" [] c = "S" -> "s" [] c = "T" -> "t"
      [] c = "U" -> "u" [] c = "V" -> "v" [] c = "W" -> "w" [] c = "X" -> "x"
      [] c = "Y" -> "y" [] c = "Z" -> "z" [] OTHER -> c

\* str.lower()
lower(s) == [i \in 1..Len(s) |-> LowerChar(s[i])]

IndexesOf(s, c) == {i \in 1..Len(s) : s[i] = c}

SetMax(S) == CHOOSE x \in S : \A y \in S : y <= x
SetMin(S) == CHOOSE x \in S : \A y \in S : x <= y

\* email.split("@")[0]
BeforeFirstAt(email) ==
    IF IndexesOf(email, "@") = {} THEN email
    ELSE SubSeq(email, 1, SetMin(IndexesOf(email, "@")) - 1)

\* BaseUserManager.normalize_email: the part after the last "@" is lowercased;
\* a text without "@" is returned as it is.
normalize_email(email) ==
    IF IndexesOf(email, "@") = {} THEN email
    ELSE LET at == SetMax(IndexesOf(email, "@"))
         IN  SubSeq(email, 1, at) \o lower(SubSeq(email, at + 1, Len(email)))

\* set_password stores a hash of the raw password; check_password compares.
make_password(raw) == <<"pbkdf2$">> \o raw
check_password(raw, encoded) == encoded = make_password(raw)

\* The unique columns of User: email (models.py) and username (AbstractUser).
\* TRUE when inserting a row with these values raises IntegrityError.
IntegrityError(db, email, username) ==
    \E u \in DOMAIN db : db[u].email = email \/ db[u].username = username

\* The row UserManager._create_user saves (password is not empty here).
create_user_row(email, username, password, gradient, xp, level, xp_needed) ==
    [email            |-> normalize_email(email),
     username         |-> username,
     password         |-> make_password(password),
     profile_gradient |-> gradient,
     xp               |-> xp,
     level            |-> level,
     xp_needed        |-> xp_needed]

\* uuid4 for a new row: the ids are interchangeable, the model takes the
\* first one not in use.
NewUserId(db) ==
    CHOOSE id \in UserIds \ DOMAIN db : TRUE

-----------------------------------------------------------------------------
(* accounts/authentication.py and rest_framework.authtoken *)

NoHeader == [keyword |-> None, key |-> None]

\* TokenAuthentication.authenticate_credentials(key): the token's user, or
\* AuthenticationFailed.
authenticate_credentials(tk, key) ==
    IF key \in DOMAIN tk
    THEN [outcome |-> "user", user |-> tk[key]]
    ELSE [outcome |-> "failed", user |-> None]

\* TokenAuthentication.authenticate: an Authorization header whose keyword is
\* not "Token" is not this scheme's (None); "Token" without a key fails.
header_authenticate(tk, header) ==
    IF header.keyword # "Token" THEN [outcome |-> "none", user |-> None]
    ELSE IF header.key = None THEN [outcome |-> "failed", user |-> None]
    ELSE authenticate_credentials(tk, header.key)

\* authenticate, had a request without a cookie been taken for a token's user.
authenticate_without_credentials(tk, header, cookie) ==
    LET header_auth == header_authenticate(tk, header)
    IN  IF header_auth.outcome # "none" THEN header_auth
        ELSE IF cookie = None \/ cookie = ""
        THEN IF DOMAIN tk = {} THEN [outcome |-> "none", user |-> None]
             ELSE [outcome |-> "user", user |-> tk[CHOOSE k \in DOMAIN tk : TRUE]]
        ELSE authenticate_credentials(tk, cookie)

\* authenticate, had it not looked the cookie's key up.
authenticate_any_cookie(tk, header, cookie) ==
    LET header_auth == header_authenticate(tk, header)
    IN  IF header_auth.outcome # "none" THEN header_auth
        ELSE IF DOMAIN tk = {} THEN [outcome |-> "none", user |-> None]
        ELSE [outcome |-> "user", user |-> tk[CHOOSE k \in DOMAIN tk : TRUE]]

\* authenticate, had the cookie been tried before the header.
authenticate_cookie_first(tk, header, cookie) ==
    IF cookie # None /\ cookie # "" THEN authenticate_credentials(tk, cookie)
    ELSE header_authenticate(tk, header)

\* CookieTokenAuthentication.authenticate
authenticate(tk, header, cookie) ==
    LET header_auth == header_authenticate(tk, header)
    IN  IF header_auth.outcome # "none" THEN header_auth
        ELSE IF cookie = None \/ cookie = "" THEN [outcome |-> "none", user |-> None]
        ELSE authenticate_credentials(tk, cookie)

\* Token.generate_key for a new row: the keys are interchangeable random
\* texts, the model takes the first one not in use.
NewKey(tk) == CHOOSE k \in Keys \ DOMAIN tk : TRUE

\* Token.objects.get_or_create(user=user): the user's row (user is
\* one-to-one), created with a new key when the user has none.
get_or_create(tk, uid) ==
    IF \E k \in DOMAIN tk : tk[k] = uid
    THEN [tokens |-> tk, key |-> CHOOSE k \in DOMAIN tk : tk[k] = uid]
    ELSE [tokens |-> (NewKey(tk) :> uid) @@ tk, key |-> NewKey(tk)]

-----------------------------------------------------------------------------
(* Requests and responses *)

\* A request: the view it is routed to, its credentials, query parameters,
\* path or query id, and body.
Request(op) ==
    [op       |-> op,
     header   |-> NoHeader,
     cookie   |-> None,
     offset   |-> Absent,
     limit    |-> Absent,
     id       |-> None,
     query    |-> <<>>,
     email    |-> Absent,
     password |-> Absent,
     username |-> Absent]

WithCredentials(r, c) == [r EXCEPT !.header = c.header, !.cookie = c.cookie]

\* A response: its status, the user the request was authenticated as, the
\* auth_token cookie it sets, the keys of its JSON body and their values.
Response(op, status, keys) ==
    [op          |-> op,
     status      |-> status,
     auth        |-> None,
     cookie      |-> None,
     keys        |-> keys,
     page        |-> NoPage,
     user        |-> <<>>,
     hackathons  |-> <<>>,
     friends     |-> <<>>,
     leaderboard |-> <<>>,
     team        |-> <<>>]

\* No request has been answered yet.
Idle == Response("idle", 0, {})

\* build_bootstrap_payload has not run in the last request.
NoBuild == [built |-> FALSE, store |-> <<>>]

\* build_bootstrap_payload is called on the User table db and the Token table tk.
Building(db, tk) ==
    [built |-> TRUE,
     store |-> <<db, tk, hackathons, teams, memberships, entries, friendships>>]

\* rest_framework: a request that authenticates as nobody, or whose
\* credentials are refused, is answered 401 by a view that requires
\* IsAuthenticated.
Unauthorized(op) == Response(op, 401, {"detail"})

\* The response Response(payload, status) of init, login and signup.
BootstrapResponse(op, status, uid, b) ==
    [Response(op, status, {"user", "hackathons", "friends"}) EXCEPT
        !.auth       = uid,
        !.user       = b.user,
        !.hackathons = b.hackathons,
        !.friends    = b.friends]

-----------------------------------------------------------------------------
(* api/views.py: InitView *)

InitView(c) ==
    LET r == WithCredentials(Request("init"), c)
        a == authenticate(tokens, c.header, c.cookie)
    IN  /\ req' = r
        /\ IF a.outcome # "user"
           THEN /\ resp' = Unauthorized("init")
                /\ users' = users
                /\ atBuild' = NoBuild
           ELSE \E b \in build_bootstrap_payload(users, a.user, users[a.user]) :
                    /\ resp' = BootstrapResponse("init", 200, a.user, b)
                    /\ users' = b.db
                    /\ atBuild' = Building(users, tokens)
        /\ UNCHANGED <<tokens, tables, now, issued>>

-----------------------------------------------------------------------------
(* parse_pagination on its own *)

\* The values a query parameter is given in the enumeration.
QueryTexts == TextsUpTo(MaxLen) \cup {Absent}

EmptyStore ==
    /\ users = <<>>
    /\ tokens = <<>>
    /\ hackathons = <<>>
    /\ teams = {}
    /\ memberships = {}
    /\ entries = <<>>
    /\ friendships = <<>>

PaginationInit ==
    /\ EmptyStore
    /\ now = 0
    /\ req \in {[Request("parse_pagination") EXCEPT !.offset = o, !.limit = l] :
                    o \in QueryTexts, l \in QueryTexts}
    /\ resp = Idle
    /\ atBuild = NoBuild
    /\ issued = {}

\* The call parse_pagination(request) on the request's query parameters.
ParsePagination ==
    /\ req.op = "parse_pagination"
    /\ resp = Idle
    /\ resp' = [Response("parse_pagination", 0, {}) EXCEPT
                    !.page = parse_pagination(req.offset, req.limit)]
    /\ UNCHANGED <<users, tokens, tables, now, req, atBuild, issued>>

PaginationNext == ParsePagination

SpecPagination == PaginationInit /\ [][PaginationNext]_vars

-----------------------------------------------------------------------------
(* Store contents the specifications start from.  Rows other than those a
   signup writes are created outside the views (the admin site, the tests'
   setUp), bound only by the models' constraints. *)

\* hackathons of the many-hackathons stores
MaxHackathons == 6

Edu == <<".", "e", "d", "u">>

\* local@domain.edu as a text
EmailText(local, domain) == local \o <<"@">> \o domain \o Edu

\* The name each seeded user goes by.
SeedName ==
    ("u1" :> <<"a">>) @@ ("u2" :> <<"b">>) @@ ("u3" :> <<"c">>) @@ ("u4" :> <<"d">>)

SeedPassword == <<"p", "a", "s", "s", "1", "2", "3">>

\* A gradient some earlier backfill or signup stored.
SeedGradient == <<0, 16777215>>

\* The defaults-related columns of a seeded row: as User.objects.create_user
\* leaves them (the models' defaults), as a signup leaves them, with xp and
\* level moved on since xp_needed was computed, and with level 0.
SeedProfiles ==
    {[profile_gradient |-> <<>>, xp |-> 0, level |-> 1, xp_needed |-> 0],
     [profile_gradient |-> SeedGradient, xp |-> 0, level |-> 1, xp_needed |-> 100],
     [profile_gradient |-> SeedGradient, xp |-> 250, level |-> 2, xp_needed |-> 100],
     [profile_gradient |-> <<>>, xp |-> 50, level |-> 0, xp_needed |-> 50]}

SignedUpProfile ==
    [profile_gradient |-> SeedGradient, xp |-> 0, level |-> 1, xp_needed |-> 100]

\* User.objects.create_user(email=..., username=..., password=...) of the
\* tests, with the defaults-related columns as given.
SeedUser(id, profile) ==
    [create_user_row(EmailText(SeedName[id], <<"x">>), SeedName[id], SeedPassword,
                     profile.profile_gradient, profile.xp, profile.level,
                     profile.xp_needed)
        EXCEPT !.xp_needed = profile.xp_needed]

\* The partial functions from D to R.
PartialFunctions(D, R) == UNION {[S -> R] : S \in SUBSET D}

\* A Hackathon row: its name, and start_date and end_date in ticks.
NamedHackathon(name, start, end) ==
    [name |-> name, start_date |-> start, end_date |-> end]

\* A row under the name the stores give where names play no part.
HackathonRow(start, end) == NamedHackathon(<<"H", "a", "c", "k">>, start, end)

HackathonOrder == <<"h1", "h2", "h3", "h4", "h5", "h6", "h7", "h8">>

\* The first n hackathon ids.
FirstHackathons(n) == {HackathonOrder[i] : i \in 1..n}

\* The ids are interchangeable (uuid4), so of the stores that differ only by
\* renaming hackathons one is kept: the one whose rows are in id order.
InIdOrder(hs, n) ==
    \A i \in 1..(n - 1) :
        LET a == hs[HackathonOrder[i]]
            b == hs[HackathonOrder[i + 1]]
        IN  \/ a.start_date < b.start_date
            \/ a.start_date = b.start_date /\ a.end_date <= b.end_date

\* Many hackathons, one team of u1's entered in all of them, no placements
\* posted: the stores in which the upcoming list is cut at 5.
ManyHackathonsStore ==
    /\ users = [u \in {"u1"} |-> SeedUser(u, SignedUpProfile)]
    /\ tokens = ("k1" :> "u1")
    /\ teams = {"t1"}
    /\ memberships = {<<"u1", "t1">>}
    /\ \E n \in 0..MaxHackathons :
        /\ hackathons \in [FirstHackathons(n) ->
                              {HackathonRow(s, e) : s \in {0, 1}, e \in {2, 3}}]
        /\ InIdOrder(hackathons, n)
        /\ entries = [e \in FirstHackathons(n) \X {"t1"} |-> Unset]
    /\ friendships = <<>>
    /\ now \in {0, 3}

\* Two hackathons, two teams, any entries and placements, u1 in one or both
\* teams: the stores in which a hackathon is entered by several of u1's teams.
TwoTeamsStore ==
    /\ users = [u \in {"u1", "u2"} |-> SeedUser(u, SignedUpProfile)]
    /\ tokens = ("k1" :> "u1")
    /\ teams = {"t1", "t2"}
    /\ memberships \in {{<<"u1", "t1">>, <<u, "t2">>} : u \in {"u1", "u2"}}
    /\ \E h2 \in {HackathonRow(0, 1), HackathonRow(1, 3), HackathonRow(2, 2)} :
        hackathons = ("h1" :> HackathonRow(1, 3)) @@ ("h2" :> h2)
    /\ entries \in PartialFunctions({"h1", "h2"} \X {"t1", "t2"}, {Unset, 1, 2})
    /\ friendships = <<>>
    /\ now \in {0, 2}

\* The other users are interchangeable too: of the friendship tables that
\* differ only by renaming u2, u3, u4 the one in id order is kept.
FriendshipCode(fs, p) == IF p \in DOMAIN fs THEN fs[p] + 1 ELSE 0

FriendCode(fs, v) ==
    FriendshipCode(fs, <<"u1", v>>) * 16 + FriendshipCode(fs, <<v, "u1">>)

FriendsInIdOrder(fs) ==
    /\ FriendCode(fs, "u2") <= FriendCode(fs, "u3")
    /\ FriendCode(fs, "u3") <= FriendCode(fs, "u4")

\* Four users and any friendships that involve u1, u1 with itself included
\* (the model constrains only the ordered pair to be unique): the stores in
\* which the friends list is cut at 5.
ManyFriendsStore ==
    /\ users = [u \in UserIds |-> SeedUser(u, SignedUpProfile)]
    /\ tokens = ("k1" :> "u1")
    /\ teams = {}
    /\ memberships = {}
    /\ hackathons = <<>>
    /\ entries = <<>>
    /\ friendships \in PartialFunctions(
            {p \in UserIds \X UserIds : p[1] = "u1" \/ p[2] = "u1"}, {0, 1, 2})
    /\ FriendsInIdOrder(friendships)
    /\ now = 0

\* What a browser that logged in earlier, or nobody, sends.
NoCredentials == [header |-> NoHeader, cookie |-> None]
CookieOnly(k) == [header |-> NoHeader, cookie |-> k]

BootstrapInit ==
    /\ \/ ManyHackathonsStore
       \/ TwoTeamsStore
       \/ ManyFriendsStore
    /\ req = Request("idle")
    /\ resp = Idle
    /\ atBuild = NoBuild
    /\ issued = {}

\* GET /init from the client that holds u1's cookie, asked once per store.
BootstrapNext ==
    /\ resp = Idle
    /\ \E k \in DOMAIN tokens : InitView(CookieOnly(k))

SpecBootstrap == BootstrapInit /\ [][BootstrapNext]_vars

-----------------------------------------------------------------------------
(* api/views.py: SignupView and LoginView *)

\* Python's `not x` for a body value: None (absent from the JSON) or empty.
Falsy(text) == text = Absent \/ text = <<>>

\* An exception no handler catches: Django answers 500 and the writes of the
\* failed statement are not made.
ServerError(op) == Response(op, 500, {})

BadRequest(op) == Response(op, 400, {"detail"})

\* set_auth_cookie(response, token.key)
set_auth_cookie(response, token_key) == [response EXCEPT !.cookie = token_key]

\* User.objects.filter(email=email).exists()
email_registered(db, email) ==
    \E u \in DOMAIN db : db[u].email = email

\* SignupView.post with the body {email, password, username}; a key the body
\* lacks is Absent.
SignupView_post(email, password, username) ==
    LET r == [Request("signup") EXCEPT
                  !.email = email, !.password = password, !.username = username]
        \* username = request.data.get("username") or email.split("@")[0]
        name == IF Falsy(username) THEN BeforeFirstAt(email) ELSE username
    IN  /\ req' = r
        /\ IF Falsy(username) /\ email = Absent
           THEN \* None.split: AttributeError
                /\ resp' = ServerError("signup")
                /\ UNCHANGED <<users, tokens, issued>>
                /\ atBuild' = NoBuild
           ELSE IF Falsy(email) \/ Falsy(password)
           THEN /\ resp' = BadRequest("signup")
                /\ UNCHANGED <<users, tokens, issued>>
                /\ atBuild' = NoBuild
           ELSE IF email_registered(users, email)
           THEN /\ resp' = BadRequest("signup")
                /\ UNCHANGED <<users, tokens, issued>>
                /\ atBuild' = NoBuild
           ELSE IF IntegrityError(users, normalize_email(email), name)
           THEN \* user.save: a unique column is taken
                /\ resp' = ServerError("signup")
                /\ UNCHANGED <<users, tokens, issued>>
                /\ atBuild' = NoBuild
           ELSE \E gradient \in generate_gradient :
                LET uid     == NewUserId(users)
                    row     == create_user_row(email, name, password, gradient,
                                               0, 1, compute_xp_needed(1, 0))
                    created == (uid :> row) @@ users
                    token   == get_or_create(tokens, uid)
                IN  \E b \in build_bootstrap_payload(created, uid, row) :
                        /\ resp' = set_auth_cookie(
                                      BootstrapResponse("signup", 201, uid, b),
                                      token.key)
                        /\ users' = b.db
                        /\ tokens' = token.tokens
                        /\ issued' = issued \cup {<<token.key, uid>>}
                        /\ atBuild' = Building(created, token.tokens)
        /\ UNCHANGED <<tables, now>>

\* django.contrib.auth.authenticate(username=email, password=password): the
\* user whose email is exactly `email` and whose password checks, or None.
django_authenticate(db, email, password) ==
    LET found == {u \in DOMAIN db :
                     db[u].email = email /\ check_password(password, db[u].password)}
    IN  IF found = {} THEN None ELSE CHOOSE u \in found : TRUE

\* LoginView.post with the body {email, password}.
LoginView_post(email, password) ==
    LET r    == [Request("login") EXCEPT !.email = email, !.password = password]
        user == django_authenticate(users, email, password)
    IN  /\ req' = r
        /\ IF Falsy(email) \/ Falsy(password)
           THEN /\ resp' = BadRequest("login")
                /\ UNCHANGED <<users, tokens, issued>>
                /\ atBuild' = NoBuild
           ELSE IF user = None
           THEN /\ resp' = Response("login", 401, {"detail"})
                /\ UNCHANGED <<users, tokens, issued>>
                /\ atBuild' = NoBuild
           ELSE LET token == get_or_create(tokens, user)
                IN  \E b \in build_bootstrap_payload(users, user, users[user]) :
                        /\ resp' = set_auth_cookie(
                                      BootstrapResponse("login", 200, user, b),
                                      token.key)
                        /\ users' = b.db
                        /\ tokens' = token.tokens
                        /\ issued' = issued \cup {<<token.key, user>>}
                        /\ atBuild' = Building(users, token.tokens)
        /\ UNCHANGED <<tables, now>>

-----------------------------------------------------------------------------
(* Accounts: signups, logins and GET /init over a store of seeded users *)

\* The emails a signup or login body carries: none, empty, u1's, a new one,
\* and the new one with its domain in capitals.
BodyEmails ==
    {Absent, <<>>, EmailText(<<"a">>, <<"x">>), EmailText(<<"c">>, <<"x">>),
     EmailText(<<"c">>, <<"X">>)}

WrongPassword == <<"n", "o">>

BodyPasswords == {Absent, SeedPassword, WrongPassword}

\* The usernames a signup body carries: none, u1's, a new one.
BodyUsernames == {Absent, <<"a">>, <<"z">>}

\* u1 and u2 as the tests or the admin site created them, friends or not
\* (u1 with itself included), u1 in a team entered in one hackathon, u1
\* logged in before or not.
AccountsStore ==
    /\ \E p1 \in SeedProfiles, p2 \in {SignedUpProfile} \cup {p \in SeedProfiles : p.level = 0} :
        users = ("u1" :> SeedUser("u1", p1)) @@ ("u2" :> SeedUser("u2", p2))
    /\ tokens \in {<<>>, ("k1" :> "u1")}
    /\ teams = {"t1"}
    /\ memberships = {<<"u1", "t1">>}
    /\ hackathons = ("h1" :> HackathonRow(1, 3))
    /\ entries = (<<"h1", "t1">> :> 1)
    /\ \E ps \in {{}, {<<"u1", "u1">>}, {<<"u1", "u2">>, <<"u2", "u1">>},
                  {<<"u1", "u2">>, <<"u2", "u1">>, <<"u1", "u1">>}} :
        friendships = [p \in ps |-> IF p[1] = "u2" THEN 2 ELSE 0]
    /\ now = 0

AccountsInit ==
    /\ AccountsStore
    /\ req = Request("idle")
    /\ resp = Idle
    /\ atBuild = NoBuild
    /\ issued = {}

\* POST /signup, while ids are left for the new row.
Signup ==
    /\ DOMAIN users # UserIds
    /\ \E email \in BodyEmails, password \in BodyPasswords \ {WrongPassword},
          username \in BodyUsernames :
            SignupView_post(email, password, username)

\* POST /login
Login ==
    \E email \in BodyEmails, password \in BodyPasswords :
        LoginView_post(email, password)

\* GET /init with no credentials or with only a cookie, a key in use or not.
GetInit ==
    \E c \in {NoCredentials} \cup {CookieOnly(k) : k \in Keys} : InitView(c)

AccountsNext == Signup \/ Login \/ GetInit

SpecAccounts == AccountsInit /\ [][AccountsNext]_vars

-----------------------------------------------------------------------------
(* api/views.py: the list and lookup views *)

\* A response to a request authenticated as uid.
Answer(op, status, keys, uid) == [Response(op, status, keys) EXCEPT !.auth = uid]

\* {"detail": "Invalid pagination"}, 400
InvalidPagination(op, uid) == Answer(op, 400, {"detail"}, uid)

\* {"detail": "... not found"}, 404
NotFound(op, uid) == Answer(op, 404, {"detail"}, uid)

\* A query-string uuid that is not one: Model.objects.get(id=...) raises
\* ValidationError, which no handler catches.
Malformed == "not-a-uuid"

\* name__contains: the comparison that keeps the case.
contains(name, query) ==
    \E i \in 1..(Len(name) - Len(query) + 1) :
        SubSeq(name, i, i + Len(query) - 1) = query

\* name__icontains=query
icontains(name, query) ==
    \E i \in 1..(Len(name) - Len(query) + 1) :
        SubSeq(lower(name), i, i + Len(query) - 1) = lower(query)

\* The dictionary best_placement_for_user, past_hackathons_for_user,
\* past_hackathons_for_team and TeamLookupView build for an entry.
entry_payload(e) ==
    [uuid         |-> e[1],
     name         |-> hackathons[e[1]].name,
     start_date   |-> timestamp(hackathons[e[1]].start_date),
     end_date     |-> timestamp(hackathons[e[1]].end_date),
     participants |-> participants_count(e[1]),
     placement    |-> entries[e]]

\* .order_by("placement", "-hackathon__end_date").first() over the placed
\* rows: None (<<>>) without one, any of the rows tied on both keys otherwise.
best_entry(rows) ==
    LET ranked == {e \in rows : entries[e] # Unset}
        best   == {e \in ranked : \A o \in ranked :
                       \/ entries[e] < entries[o]
                       \/ /\ entries[e] = entries[o]
                          /\ hackathons[e[1]].end_date >= hackathons[o[1]].end_date}
    IN  IF ranked = {} THEN {<<>>} ELSE {<<entry_payload(e)>> : e \in best}

best_placement_for_user(uid) == best_entry(EntriesOfUser(uid))

\* past_entries, had the filter been end_date__lte=now.
past_entries_until_now(rows, offset, limit) ==
    LET past == {e \in rows : hackathons[e[1]].end_date <= now /\ entries[e] # Unset}
        key  == [e \in past |-> 0 - hackathons[e[1]].end_date]
    IN  {[i \in 1..Len(s) |-> entry_payload(s[i])] :
            s \in OrderedSlices(past, key, offset, limit)}

\* The placed entries, among rows, of hackathons that ended before now, by
\* descending end_date, [offset : offset + limit].
past_entries(rows, offset, limit) ==
    LET past == {e \in rows : hackathons[e[1]].end_date < now /\ entries[e] # Unset}
        key  == [e \in past |-> 0 - hackathons[e[1]].end_date]
    IN  {[i \in 1..Len(s) |-> entry_payload(s[i])] :
            s \in OrderedSlices(past, key, offset, limit)}

past_hackathons_for_user(uid, offset, limit) ==
    past_entries(EntriesOfUser(uid), offset, limit)

past_hackathons_for_team(t, offset, limit) ==
    past_entries({e \in DOMAIN entries : e[2] = t}, offset, limit)

\* The entry of a leaderboard list.
leaderboard_entry(e) ==
    [placement |-> entries[e],
     uuid      |-> e[2],
     members   |-> {u \in DOMAIN users : <<u, e[2]>> \in memberships}]

\* A request of a paginated view.
Paginated(op, c, offset, limit) ==
    [WithCredentials(Request(op), c) EXCEPT !.offset = offset, !.limit = limit]

\* GET /user/hackathons
UserHackathonsView(c, offset, limit) ==
    LET op   == "user-hackathons"
        a    == authenticate(tokens, c.header, c.cookie)
        page == parse_pagination(offset, limit)
        rows == UpcomingEntries(a.user, now)
        key  == [e \in rows |-> hackathons[e[1]].start_date]
    IN  /\ req' = Paginated(op, c, offset, limit)
        /\ IF a.outcome # "user" THEN resp' = Unauthorized(op)
           ELSE IF ~page.ok THEN resp' = InvalidPagination(op, a.user)
           ELSE \E es \in OrderedSlices(rows, key, page.offset, page.limit) :
                \E nullsFirst \in BOOLEAN :
                \E pick \in FirstPicks({e[1] : e \in Range(es)}, a.user, nullsFirst) :
                    resp' = [Answer(op, 200, {"hackathons"}, a.user) EXCEPT
                                !.page = page,
                                !.hackathons = HackathonPayloads(es, a.user, pick)]
        /\ atBuild' = NoBuild
        /\ UNCHANGED <<users, tokens, tables, now, issued>>

\* GET /user/past-hackathons: the payload's placement is the listed entry's.
UserPastHackathonsView(c, offset, limit) ==
    LET op   == "user-past-hackathons"
        a    == authenticate(tokens, c.header, c.cookie)
        page == parse_pagination(offset, limit)
        rows == {e \in EntriesOfUser(a.user) : hackathons[e[1]].end_date < now}
        key  == [e \in rows |-> 0 - hackathons[e[1]].end_date]
    IN  /\ req' = Paginated(op, c, offset, limit)
        /\ IF a.outcome # "user" THEN resp' = Unauthorized(op)
           ELSE IF ~page.ok THEN resp' = InvalidPagination(op, a.user)
           ELSE \E es \in OrderedSlices(rows, key, page.offset, page.limit) :
                \E nullsFirst \in BOOLEAN :
                \E pick \in FirstPicks({e[1] : e \in Range(es)}, a.user, nullsFirst) :
                    resp' = [Answer(op, 200, {"hackathons"}, a.user) EXCEPT
                                !.page = page,
                                !.hackathons =
                                    [i \in 1..Len(es) |->
                                        [HackathonPayloads(es, a.user, pick)[i] EXCEPT
                                            !.placement = entries[es[i]]]]]
        /\ atBuild' = NoBuild
        /\ UNCHANGED <<users, tokens, tables, now, issued>>

\* GET /user/friends: oldest first; each friend is given its defaults.
UserFriendsView(c, offset, limit) ==
    LET op   == "user-friends"
        a    == authenticate(tokens, c.header, c.cookie)
        page == parse_pagination(offset, limit)
        rows == FriendshipsOf(a.user)
        key  == [f \in rows |-> friendships[f]]
    IN  /\ req' = Paginated(op, c, offset, limit)
        /\ IF a.outcome # "user"
           THEN resp' = Unauthorized(op) /\ users' = users
           ELSE IF ~page.ok
           THEN resp' = InvalidPagination(op, a.user) /\ users' = users
           ELSE \E fs \in OrderedSlices(rows, key, page.offset, page.limit) :
                \E fr \in serialize_friends(users, fs, a.user) :
                    /\ resp' = [Answer(op, 200, {"friends"}, a.user) EXCEPT
                                   !.page = page, !.friends = fr.out]
                    /\ users' = fr.db
        /\ atBuild' = NoBuild
        /\ UNCHANGED <<tokens, tables, now, issued>>

\* GET /hackathons?query=: most participants first, each with the user's
\* team and the leaderboard's first 10.
HackathonSearchView(c, query, offset, limit) ==
    LET op   == "hackathon-search"
        a    == authenticate(tokens, c.header, c.cookie)
        page == parse_pagination(offset, limit)
        rows == IF Falsy(query) THEN DOMAIN hackathons
                ELSE {h \in DOMAIN hackathons : icontains(hackathons[h].name, query)}
        key  == [h \in rows |-> 0 - participant_estimate(h)]
    IN  /\ req' = [Paginated(op, c, offset, limit) EXCEPT !.query = query]
        /\ IF a.outcome # "user" THEN resp' = Unauthorized(op)
           ELSE IF ~page.ok THEN resp' = InvalidPagination(op, a.user)
           ELSE \E hs \in OrderedSlices(rows, key, page.offset, page.limit) :
                \E nullsFirst \in BOOLEAN :
                \E pick \in FirstPicks(Range(hs), a.user, nullsFirst) :
                \E board \in Choices(Range(hs),
                                     [h \in Range(hs) |-> EmbeddedLeaderboards(h)]) :
                    resp' = [Answer(op, 200, {"hackathons"}, a.user) EXCEPT
                                !.page = page,
                                !.hackathons =
                                    [i \in 1..Len(hs) |->
                                        serialize_hackathon(hs[i], a.user, TRUE,
                                                            pick[hs[i]], board[hs[i]])]]
        /\ atBuild' = NoBuild
        /\ UNCHANGED <<users, tokens, tables, now, issued>>

\* The filter below without placement__isnull=False.
leaderboard_rows_unfiltered(hackathon_id) ==
    {e \in DOMAIN entries : e[1] = hackathon_id}

\* The rows HackathonLeaderboardView lists: filter(hackathon_id=...,
\* placement__isnull=False).
leaderboard_rows(hackathon_id) ==
    {e \in DOMAIN entries : e[1] = hackathon_id /\ entries[e] # Unset}

\* GET /hackathon/<hackathon_id>/leaderboard: the hackathon itself is not
\* looked up.
HackathonLeaderboardView(c, hackathon_id, offset, limit) ==
    LET op   == "hackathon-leaderboard"
        a    == authenticate(tokens, c.header, c.cookie)
        page == parse_pagination(offset, limit)
        rows == leaderboard_rows(hackathon_id)
        key  == [e \in rows |-> entries[e]]
    IN  /\ req' = [Paginated(op, c, offset, limit) EXCEPT !.id = hackathon_id]
        /\ IF a.outcome # "user" THEN resp' = Unauthorized(op)
           ELSE IF ~page.ok THEN resp' = InvalidPagination(op, a.user)
           ELSE \E es \in OrderedSlices(rows, key, page.offset, page.limit) :
                    resp' = [Answer(op, 200, {"leaderboard"}, a.user) EXCEPT
                                !.page = page,
                                !.leaderboard =
                                    [i \in 1..Len(es) |-> leaderboard_entry(es[i])]]
        /\ atBuild' = NoBuild
        /\ UNCHANGED <<users, tokens, tables, now, issued>>

\* GET /user/lookup?uuid=: the target is given its defaults.
UserLookupView(c, user_id) ==
    LET op == "user-lookup"
        a  == authenticate(tokens, c.header, c.cookie)
    IN  /\ req' = [WithCredentials(Request(op), c) EXCEPT !.id = user_id]
        /\ IF a.outcome # "user"
           THEN resp' = Unauthorized(op) /\ users' = users
           ELSE IF user_id = None
           THEN resp' = Answer(op, 400, {"detail"}, a.user) /\ users' = users
           ELSE IF user_id = Malformed
           THEN resp' = Answer(op, 500, {}, a.user) /\ users' = users
           ELSE IF user_id \notin DOMAIN users
           THEN resp' = NotFound(op, a.user) /\ users' = users
           ELSE \E g \in GradientDraws(users[user_id]) :
                \E best \in best_placement_for_user(user_id) :
                \E past \in past_hackathons_for_user(user_id, 0, 5) :
                    LET core == serialize_user_core(users, user_id, users[user_id], g)
                    IN  /\ resp' = [Answer(op, 200, {"user"}, a.user) EXCEPT
                                       !.user = <<core.payload @@
                                                  [best_placement  |-> best,
                                                   past_hackathons |-> past]>>]
                        /\ users' = core.db
        /\ atBuild' = NoBuild
        /\ UNCHANGED <<tokens, tables, now, issued>>

\* GET /user/lookup/<user_id>/history
UserHistoryView(c, user_id, offset, limit) ==
    LET op   == "user-history"
        a    == authenticate(tokens, c.header, c.cookie)
        page == parse_pagination(offset, limit)
    IN  /\ req' = [Paginated(op, c, offset, limit) EXCEPT !.id = user_id]
        /\ IF a.outcome # "user" THEN resp' = Unauthorized(op)
           ELSE IF ~page.ok THEN resp' = InvalidPagination(op, a.user)
           ELSE IF user_id \notin DOMAIN users THEN resp' = NotFound(op, a.user)
           ELSE \E past \in past_hackathons_for_user(user_id, page.offset, page.limit) :
                    resp' = [Answer(op, 200, {"hackathons"}, a.user) EXCEPT
                                !.page = page, !.hackathons = past]
        /\ atBuild' = NoBuild
        /\ UNCHANGED <<users, tokens, tables, now, issued>>

\* GET /team/lookup?uuid=
TeamLookupView(c, team_id) ==
    LET op == "team-lookup"
        a  == authenticate(tokens, c.header, c.cookie)
    IN  /\ req' = [WithCredentials(Request(op), c) EXCEPT !.id = team_id]
        /\ IF a.outcome # "user" THEN resp' = Unauthorized(op)
           ELSE IF team_id = None THEN resp' = Answer(op, 400, {"detail"}, a.user)
           ELSE IF team_id = Malformed THEN resp' = Answer(op, 500, {}, a.user)
           ELSE IF team_id \notin teams THEN resp' = NotFound(op, a.user)
           ELSE \E past \in past_hackathons_for_team(team_id, 0, 5) :
                \E best \in best_entry({e \in DOMAIN entries : e[2] = team_id}) :
                    resp' = [Answer(op, 200, {"team"}, a.user) EXCEPT
                                !.team = <<[uuid            |-> team_id,
                                            best_placement  |-> best,
                                            past_hackathons |-> past,
                                            members         |->
                                                {u \in DOMAIN users :
                                                    <<u, team_id>> \in memberships}]>>]
        /\ atBuild' = NoBuild
        /\ UNCHANGED <<users, tokens, tables, now, issued>>

\* GET /team/<team_id>/history
TeamHistoryView(c, team_id, offset, limit) ==
    LET op   == "team-history"
        a    == authenticate(tokens, c.header, c.cookie)
        page == parse_pagination(offset, limit)
    IN  /\ req' = [Paginated(op, c, offset, limit) EXCEPT !.id = team_id]
        /\ IF a.outcome # "user" THEN resp' = Unauthorized(op)
           ELSE IF ~page.ok THEN resp' = InvalidPagination(op, a.user)
           ELSE IF team_id \notin teams THEN resp' = NotFound(op, a.user)
           ELSE \E past \in past_hackathons_for_team(team_id, page.offset, page.limit) :
                    resp' = [Answer(op, 200, {"hackathons"}, a.user) EXCEPT
                                !.page = page, !.hackathons = past]
        /\ atBuild' = NoBuild
        /\ UNCHANGED <<users, tokens, tables, now, issued>>

-----------------------------------------------------------------------------
(* accounts/serializers.py and accounts/views.py: /accounts/me *)

\* str.endswith
endswith(text, suffix) ==
    /\ Len(text) >= Len(suffix)
    /\ SubSeq(text, Len(text) - Len(suffix) + 1, Len(text)) = suffix

\* A PATCH body: the fields it carries, each a JSON string; Absent is
\* serializers.empty.
Body(email, password, xp, level) ==
    [email |-> email, password |-> password, xp |-> xp, level |-> level]

\* parse_int(name, value, minv, maxv) of to_internal_value: TRUE when it
\* records an error.  bounded is `maxv is not None`.
parse_int_error(value, minv, bounded, maxv) ==
    /\ value # Absent
    /\ \/ ~int(value).ok
       \/ int(value).val < minv
       \/ bounded /\ int(value).val > maxv

\* CustomUserSerializer.to_internal_value: the keys of the errors it collects.
to_internal_value_errors(data) ==
    {k \in {"email", "password", "xp", "level"} :
        \/ k = "email" /\ data.email # Absent /\ ~endswith(data.email, Edu)
        \/ k = "password" /\ data.password # Absent /\ Len(data.password) < 6
        \/ k = "xp" /\ parse_int_error(data.xp, 0, FALSE, 0)
        \/ k = "level" /\ parse_int_error(data.level, 0, TRUE, 500)}

\* CustomUserSerializer.to_representation
to_representation(uid, instance) ==
    [id               |-> uid,
     email            |-> instance.email,
     username         |-> instance.username,
     xp               |-> instance.xp,
     level            |-> instance.level,
     xp_needed        |-> instance.xp_needed,
     profile_gradient |-> instance.profile_gradient]

\* update, had it recomputed xp_needed from the level and the xp it saves.
update_recomputing_xp_needed(instance, data) ==
    LET xp    == IF data.xp = Absent THEN instance.xp ELSE int(data.xp).val
        level == IF data.level = Absent THEN instance.level ELSE int(data.level).val
    IN  [instance EXCEPT
            !.email     = IF data.email = Absent THEN @ ELSE data.email,
            !.xp        = xp,
            !.level     = level,
            !.xp_needed = compute_xp_needed(level, xp),
            !.password  = IF data.password = Absent THEN @
                          ELSE make_password(data.password)]

\* CustomUserSerializer.update: the fields the body carries are set on the
\* instance, which is saved; the password is hashed and saved after.
update(instance, data) ==
    [instance EXCEPT
        !.email    = IF data.email = Absent THEN @ ELSE data.email,
        !.xp       = IF data.xp = Absent THEN @ ELSE int(data.xp).val,
        !.level    = IF data.level = Absent THEN @ ELSE int(data.level).val,
        !.password = IF data.password = Absent THEN @
                     ELSE make_password(data.password)]

\* GET /accounts/me
MeView_get(c) ==
    LET op == "me-get"
        a  == authenticate(tokens, c.header, c.cookie)
    IN  /\ req' = WithCredentials(Request(op), c)
        /\ IF a.outcome # "user" THEN resp' = Unauthorized(op)
           ELSE resp' = [Answer(op, 200, DOMAIN to_representation(a.user, users[a.user]),
                                a.user)
                            EXCEPT !.user = <<to_representation(a.user, users[a.user])>>]
        /\ atBuild' = NoBuild
        /\ UNCHANGED <<users, tokens, tables, now, issued>>

\* MeView.patch, had the valid fields of a body that fails validation been
\* saved before the 400.
MeView_patch_saving_valid_fields(c, data) ==
    LET op     == "me-patch"
        a      == authenticate(tokens, c.header, c.cookie)
        errors == to_internal_value_errors(data)
        valid  == [k \in DOMAIN data |-> IF k \in errors THEN Absent ELSE data[k]]
    IN  /\ req' = [WithCredentials(Request(op), c) EXCEPT
                      !.email = data.email, !.password = data.password,
                      !.query = <<data.xp, data.level>>]
        /\ IF a.outcome # "user"
           THEN resp' = Unauthorized(op) /\ users' = users
           ELSE IF errors # {}
           THEN /\ resp' = Answer(op, 400, errors, a.user)
                /\ users' = [users EXCEPT ![a.user] = update(@, valid)]
           ELSE /\ resp' = [Answer(op, 200,
                                   DOMAIN to_representation(a.user,
                                                            update(users[a.user], data)),
                                   a.user)
                               EXCEPT !.user = <<to_representation(a.user,
                                                    update(users[a.user], data))>>]
                /\ users' = [users EXCEPT ![a.user] = update(@, data)]
        /\ atBuild' = NoBuild
        /\ UNCHANGED <<tokens, tables, now, issued>>

\* PATCH /accounts/me
MeView_patch(c, data) ==
    LET op     == "me-patch"
        a      == authenticate(tokens, c.header, c.cookie)
        errors == to_internal_value_errors(data)
        saved  == update(users[a.user], data)
    IN  /\ req' = [WithCredentials(Request(op), c) EXCEPT
                      !.email = data.email, !.password = data.password,
                      !.query = <<data.xp, data.level>>]
        /\ IF a.outcome # "user"
           THEN resp' = Unauthorized(op) /\ users' = users
           ELSE IF errors # {}
           THEN resp' = Answer(op, 400, errors, a.user) /\ users' = users
           ELSE IF \E u \in DOMAIN users \ {a.user} : users[u].email = saved.email
           THEN \* instance.save(): the unique email column is taken
                resp' = Answer(op, 500, {}, a.user) /\ users' = users
           ELSE /\ resp' = [Answer(op, 200, DOMAIN to_representation(a.user, saved),
                                   a.user)
                               EXCEPT !.user = <<to_representation(a.user, saved)>>]
                /\ users' = [users EXCEPT ![a.user] = saved]
        /\ atBuild' = NoBuild
        /\ UNCHANGED <<tokens, tables, now, issued>>

-----------------------------------------------------------------------------
(* Every protected endpoint over one store *)

\* u1 and u2, friends, in team t1; u2 alone in t2; h1 over with both teams
\* placed first, h2 running with t1 entered.  u1 holds a token.
EndpointsStore ==
    /\ \E p2 \in {p \in SeedProfiles : p.level = 0} :
        users = ("u1" :> SeedUser("u1", SignedUpProfile)) @@ ("u2" :> SeedUser("u2", p2))
    /\ tokens = ("k1" :> "u1")
    /\ teams = {"t1", "t2"}
    /\ memberships = {<<"u1", "t1">>, <<"u2", "t1">>, <<"u2", "t2">>}
    /\ hackathons = ("h1" :> NamedHackathon(<<"H", "a", "c", "k">>, 0, 1))
                    @@ ("h2" :> NamedHackathon(<<"Z", "e", "t", "a">>, 1, 5))
    /\ entries = (<<"h1", "t1">> :> 1) @@ (<<"h1", "t2">> :> 1)
                 @@ (<<"h2", "t1">> :> Unset)
    /\ friendships = (<<"u1", "u2">> :> 0)
    /\ now = 2

Init ==
    /\ EndpointsStore
    /\ req = Request("idle")
    /\ resp = Idle
    /\ atBuild = NoBuild
    /\ issued = {}

\* What a request carries as credentials: nothing, u1's cookie, a cookie no
\* token has, u1's key in the header, and a refused header key beside u1's
\* cookie.
Credentials ==
    {NoCredentials, CookieOnly("k1"), CookieOnly("k4"),
     [header |-> [keyword |-> "Token", key |-> "k1"], cookie |-> None],
     [header |-> [keyword |-> "Token", key |-> "k4"], cookie |-> "k1"]}

\* offset and limit as the query string gives them
PageQueries ==
    {<<Absent, Absent>>, <<<<"1">>, <<"1">>>>, <<<<"x">>, Absent>>,
     <<Absent, <<"x">>>>, <<<<"-", "1">>, <<"6", "0">>>>}

\* Ids of rows that exist and of one that does not.
UserPathIds == {"u1", "u2", "u9"}
TeamPathIds == {"t1", "t2", "t9"}
HackathonPathIds == {"h1", "h2", "h9"}

SearchQueries == {<<>>, <<"h", "A">>, <<"q">>}

\* PATCH bodies: nothing; a new .edu address and password; an address that
\* is not .edu beside a valid xp; a short password; an xp; an xp and a level
\* that are both refused; u2's address.
PatchBodies ==
    {Body(Absent, Absent, Absent, Absent),
     Body(EmailText(<<"z">>, <<"x">>), <<"s", "e", "c", "r", "e", "t", "1">>,
          Absent, Absent),
     Body(<<"z", "@", "x", ".", "c", "o", "m">>, Absent, <<"5">>, Absent),
     Body(Absent, <<"s", "h", "o", "r", "t">>, Absent, Absent),
     Body(Absent, Absent, <<"5">>, Absent),
     Body(Absent, Absent, <<"x">>, <<"5", "0", "1">>),
     Body(EmailText(<<"b">>, <<"x">>), Absent, Absent, Absent)}

GetInitAny == \E c \in Credentials : InitView(c)
UserHackathons ==
    \E c \in Credentials, q \in PageQueries : UserHackathonsView(c, q[1], q[2])
UserPastHackathons ==
    \E c \in Credentials, q \in PageQueries : UserPastHackathonsView(c, q[1], q[2])
UserFriends ==
    \E c \in Credentials, q \in PageQueries : UserFriendsView(c, q[1], q[2])
HackathonSearch ==
    \E c \in Credentials, t \in SearchQueries, q \in PageQueries :
        HackathonSearchView(c, t, q[1], q[2])
HackathonLeaderboard ==
    \E c \in Credentials, h \in HackathonPathIds, q \in PageQueries :
        HackathonLeaderboardView(c, h, q[1], q[2])
UserLookup ==
    \E c \in Credentials, u \in UserPathIds \cup {None, Malformed} : UserLookupView(c, u)
UserHistory ==
    \E c \in Credentials, u \in UserPathIds, q \in PageQueries :
        UserHistoryView(c, u, q[1], q[2])
TeamLookup ==
    \E c \in Credentials, t \in TeamPathIds \cup {None, Malformed} : TeamLookupView(c, t)
TeamHistory ==
    \E c \in Credentials, t \in TeamPathIds, q \in PageQueries :
        TeamHistoryView(c, t, q[1], q[2])
MeGet == \E c \in Credentials : MeView_get(c)
MePatch == \E c \in Credentials, data \in PatchBodies : MeView_patch(c, data)

Next ==
    \/ GetInitAny
    \/ UserHackathons
    \/ UserPastHackathons
    \/ UserFriends
    \/ HackathonSearch
    \/ HackathonLeaderboard
    \/ UserLookup
    \/ UserHistory
    \/ TeamLookup
    \/ TeamHistory
    \/ MeGet
    \/ MePatch

Spec == Init /\ [][Next]_vars

-----------------------------------------------------------------------------
(* The leaderboard over any placements *)

\* Three teams; any of them entered in h1 with any placement or none, ties
\* included (no constraint makes a placement unique within a hackathon); t1
\* entered or not in h2.
LeaderboardStore ==
    /\ users = [u \in {"u1"} |-> SeedUser(u, SignedUpProfile)]
    /\ tokens = ("k1" :> "u1")
    /\ teams = {"t1", "t2", "t3"}
    /\ memberships = {<<"u1", "t1">>}
    /\ hackathons = ("h1" :> HackathonRow(0, 1)) @@ ("h2" :> HackathonRow(1, 5))
    /\ \E first \in PartialFunctions({"h1"} \X {"t1", "t2", "t3"}, {Unset, 1, 2}),
          second \in PartialFunctions({<<"h2", "t1">>}, {Unset, 1}) :
            entries = first @@ second
    /\ friendships = <<>>
    /\ now = 2

LeaderboardInit ==
    /\ LeaderboardStore
    /\ req = Request("idle")
    /\ resp = Idle
    /\ atBuild = NoBuild
    /\ issued = {}

LeaderboardPages ==
    {<<Absent, Absent>>, <<<<"1">>, Absent>>, <<Absent, <<"1">>>>, <<Absent, <<"x">>>>}

\* GET /hackathon/<id>/leaderboard by u1 or by nobody.
LeaderboardNext ==
    \E c \in {NoCredentials, CookieOnly("k1")}, h \in HackathonPathIds,
       q \in LeaderboardPages :
        HackathonLeaderboardView(c, h, q[1], q[2])

SpecLeaderboard == LeaderboardInit /\ [][LeaderboardNext]_vars

-----------------------------------------------------------------------------
(* The past-hackathon listings over any end dates *)

\* Three hackathons that ended before now, end at now or end later; t1
\* entered in all of them, placed or not; t2 entered in h1 or in none.  u1 is
\* in t1 and perhaps in t2, u2 in t2.
PastInit ==
    /\ users = [u \in {"u1", "u2"} |-> SeedUser(u, SignedUpProfile)]
    /\ tokens = ("k1" :> "u1")
    /\ teams = {"t1", "t2"}
    /\ memberships \in {{<<"u1", "t1">>, <<"u2", "t2">>},
                        {<<"u1", "t1">>, <<"u1", "t2">>, <<"u2", "t2">>}}
    /\ hackathons \in [{"h1", "h2", "h3"} -> {HackathonRow(0, e) : e \in 3..6}]
    /\ \E own \in [{"h1", "h2", "h3"} \X {"t1"} -> {Unset, 1}],
          other \in PartialFunctions({<<"h1", "t2">>}, {2}) :
            entries = own @@ other
    /\ friendships = <<>>
    /\ now = 5
    /\ req = Request("idle")
    /\ resp = Idle
    /\ atBuild = NoBuild
    /\ issued = {}

\* The five requests that list past hackathons, asked by u1.
PastNext ==
    \/ \E q \in {Absent, <<"1">>} : UserPastHackathonsView(CookieOnly("k1"), q, q)
    \/ \E u \in {"u1", "u2"}, q \in {Absent, <<"1">>} :
          UserHistoryView(CookieOnly("k1"), u, q, q)
    \/ \E t \in {"t1", "t2"}, q \in {Absent, <<"1">>} :
          TeamHistoryView(CookieOnly("k1"), t, q, q)
    \/ \E u \in {"u1", "u2"} : UserLookupView(CookieOnly("k1"), u)
    \/ \E t \in {"t1", "t2"} : TeamLookupView(CookieOnly("k1"), t)

SpecPast == PastInit /\ [][PastNext]_vars

-----------------------------------------------------------------------------
(* Hackathon search over any names and entries *)

\* Three hackathons, two of them under any of three names; u1 is in both
\* teams, u2 in t1 and u3 in t2 or in none; h1 is entered by any of the
\* teams, h2 by t1 or not, h3 by t2 or not.
SearchInit ==
    /\ users = [u \in {"u1", "u2", "u3"} |-> SeedUser(u, SignedUpProfile)]
    /\ tokens = ("k1" :> "u1")
    /\ teams = {"t1", "t2"}
    /\ \E more \in SUBSET {<<"u2", "t1">>, <<"u3", "t2">>} :
          memberships = {<<"u1", "t1">>, <<"u1", "t2">>} \cup more
    /\ \E n \in [{"h1", "h2"} -> {<<"H", "a">>, <<"a", "h", "a">>, <<"Z">>}] :
          hackathons = [h \in {"h1", "h2", "h3"} |->
                          NamedHackathon(IF h = "h3" THEN <<"h", "A">> ELSE n[h], 6, 7)]
    /\ \E es \in SUBSET {<<"h1", "t1">>, <<"h1", "t2">>, <<"h2", "t1">>, <<"h3", "t2">>} :
          entries = [e \in es |-> Unset]
    /\ friendships = <<>>
    /\ now = 5
    /\ req = Request("idle")
    /\ resp = Idle
    /\ atBuild = NoBuild
    /\ issued = {}

\* GET /hackathons with the query absent, empty, matching in another case or
\* matching nothing, on the default page and on a one-row page.
SearchNext ==
    \E query \in {Absent, <<>>, <<"h", "A">>, <<"q">>}, page \in {Absent, <<"1">>} :
        HackathonSearchView(CookieOnly("k1"), query, page, page)

SpecSearch == SearchInit /\ [][SearchNext]_vars

-----------------------------------------------------------------------------
(* The user mapper on POST and PATCH *)

\* The fields get_field is asked for with required=True, in the order of
\* the calls.
RequiredFields == <<"email", "username", "visibility", "password">>

\* CustomUserSerializer.to_internal_value under the request's method: the
\* keys of the error mapping it raises, {} when it raises none.  get_field
\* raises at once for the first required field a POST lacks; the other
\* errors are collected and raised together.
to_internal_value(method, data) ==
    LET missing == {i \in 1..Len(RequiredFields) : data[RequiredFields[i]] = Absent}
    IN  IF method = "POST" /\ missing # {}
        THEN {RequiredFields[SetMin(missing)]}
        ELSE to_internal_value_errors(data)
                \cup {k \in {"visibility"} :
                        data.visibility \notin {Absent, <<"public">>, <<"private">>}}

\* A body for every choice of each field absent, valid or invalid, under
\* POST and PATCH.
SerializerInit ==
    /\ EmptyStore
    /\ now = 0
    /\ \E method \in {"POST", "PATCH"},
          email \in {Absent, EmailText(<<"a">>, <<"x">>), <<"a", "@", "x">>},
          username \in {Absent, <<"a">>},
          visibility \in {Absent, <<"public">>, <<"x">>},
          password \in {Absent, <<"s", "e", "c", "r", "e", "t">>, <<"s", "h", "o", "r", "t">>},
          xp \in {Absent, <<"5">>, <<"x">>},
          level \in {Absent, <<"5", "0", "1">>} :
            req = [op |-> "to_internal_value", method |-> method,
                   data |-> Body(email, password, xp, level)
                              @@ [username |-> username, visibility |-> visibility]]
    /\ resp = Idle
    /\ atBuild = NoBuild
    /\ issued = {}

\* serializer.is_valid(): the error mapping of the data, if any.
IsValid ==
    /\ req.op = "to_internal_value"
    /\ resp = Idle
    /\ LET errors == to_internal_value(req.method, req.data)
       IN  resp' = Response("to_internal_value", IF errors = {} THEN 0 ELSE 400, errors)
    /\ UNCHANGED <<users, tokens, tables, now, req, atBuild, issued>>

SpecSerializer == SerializerInit /\ [][IsValid]_vars

-----------------------------------------------------------------------------
(* Rows created and deleted through the models *)

\* The answer of a create() or a delete(): the models rows were deleted of.
Done(op, id, deleted) ==
    /\ req' = [Request(op) EXCEPT !.id = id]
    /\ resp' = Response(op, 0, deleted)
    /\ atBuild' = NoBuild
    /\ UNCHANGED <<now, issued>>

\* The function f without the keys in gone.
Without(f, gone) == [k \in DOMAIN f \ gone |-> f[k]]

\* User.objects.create_user(...)
User_create(u) ==
    /\ u \notin DOMAIN users
    /\ users' = (u :> SeedUser(u, SignedUpProfile)) @@ users
    /\ Done("create-user", u, {})
    /\ UNCHANGED <<tokens, tables>>

\* user.delete(), had Friendship.friend not cascaded: the friendships the
\* user is the friend of stay.
User_delete_keeping_reverse_friendships(u) ==
    LET fs == {f \in DOMAIN friendships : f[1] = u}
        ms == {m \in memberships : m[1] = u}
        ks == {k \in DOMAIN tokens : tokens[k] = u}
    IN  /\ u \in DOMAIN users
        /\ users' = Without(users, {u})
        /\ tokens' = Without(tokens, ks)
        /\ friendships' = Without(friendships, fs)
        /\ memberships' = memberships \ ms
        /\ Done("delete-user", u,
                {"User"} \cup {k \in {"Friendship"} : fs # {}}
                         \cup {k \in {"TeamMembership"} : ms # {}})
        /\ UNCHANGED <<hackathons, teams, entries>>

\* user.delete(): friendships of either side, memberships and the token go
\* with the user (on_delete=CASCADE).
User_delete(u) ==
    LET fs == {f \in DOMAIN friendships : f[1] = u \/ f[2] = u}
        ms == {m \in memberships : m[1] = u}
        ks == {k \in DOMAIN tokens : tokens[k] = u}
    IN  /\ u \in DOMAIN users
        /\ users' = Without(users, {u})
        /\ tokens' = Without(tokens, ks)
        /\ friendships' = Without(friendships, fs)
        /\ memberships' = memberships \ ms
        /\ Done("delete-user", u,
                {"User"} \cup {k \in {"Friendship"} : fs # {}}
                         \cup {k \in {"TeamMembership"} : ms # {}})
        /\ UNCHANGED <<hackathons, teams, entries>>

\* Team.objects.create(...)
Team_create(t) ==
    /\ t \notin teams
    /\ teams' = teams \cup {t}
    /\ Done("create-team", t, {})
    /\ UNCHANGED <<users, tokens, hackathons, memberships, entries, friendships>>

\* team.delete(): its memberships and its entries go with it.
Team_delete(t) ==
    LET ms == {m \in memberships : m[2] = t}
        es == {e \in DOMAIN entries : e[2] = t}
    IN  /\ t \in teams
        /\ teams' = teams \ {t}
        /\ memberships' = memberships \ ms
        /\ entries' = Without(entries, es)
        /\ Done("delete-team", t,
                {"Team"} \cup {k \in {"TeamMembership"} : ms # {}}
                         \cup {k \in {"HackathonTeam"} : es # {}})
        /\ UNCHANGED <<users, tokens, hackathons, friendships>>

\* Hackathon.objects.create(...)
Hackathon_create(h) ==
    /\ h \notin DOMAIN hackathons
    /\ hackathons' = (h :> HackathonRow(0, 1)) @@ hackathons
    /\ Done("create-hackathon", h, {})
    /\ UNCHANGED <<users, tokens, teams, memberships, entries, friendships>>

\* hackathon.delete(): its entries go with it.
Hackathon_delete(h) ==
    LET es == {e \in DOMAIN entries : e[1] = h}
    IN  /\ h \in DOMAIN hackathons
        /\ hackathons' = Without(hackathons, {h})
        /\ entries' = Without(entries, es)
        /\ Done("delete-hackathon", h,
                {"Hackathon"} \cup {k \in {"HackathonTeam"} : es # {}})
        /\ UNCHANGED <<users, tokens, teams, memberships, friendships>>

\* TeamMembership.objects.create(user=u, team=t): both rows exist and the
\* pair is new (unique_together), or the insert fails.
TeamMembership_create(u, t) ==
    /\ u \in DOMAIN users /\ t \in teams
    /\ <<u, t>> \notin memberships
    /\ memberships' = memberships \cup {<<u, t>>}
    /\ Done("create-membership", u, {})
    /\ UNCHANGED <<users, tokens, hackathons, teams, entries, friendships>>

\* HackathonTeam.objects.create(hackathon=h, team=t, placement=p): both rows
\* exist and the pair is new, or the insert fails.  The column of a
\* PositiveIntegerField(null=True) takes NULL and the integers from 0 up.
HackathonTeam_create(h, t, placement) ==
    /\ h \in DOMAIN hackathons /\ t \in teams
    /\ <<h, t>> \notin DOMAIN entries
    /\ placement = Unset \/ placement >= 0
    /\ entries' = (<<h, t>> :> placement) @@ entries
    /\ Done("create-entry", h, {})
    /\ UNCHANGED <<users, tokens, hackathons, teams, memberships, friendships>>

\* Friendship.objects.create(user=u, friend=f)
Friendship_create(u, f) ==
    /\ u \in DOMAIN users /\ f \in DOMAIN users
    /\ <<u, f>> \notin DOMAIN friendships
    /\ friendships' = (<<u, f>> :> now) @@ friendships
    /\ Done("create-friendship", u, {})
    /\ UNCHANGED <<users, tokens, hackathons, teams, memberships, entries>>

\* Two users, the first with a token, two teams and a hackathon, no rows
\* between them yet.
ModelsInit ==
    /\ users = [u \in {"u1", "u2"} |-> SeedUser(u, SignedUpProfile)]
    /\ tokens = ("k1" :> "u1")
    /\ teams = {"t1", "t2"}
    /\ hackathons = ("h1" :> HackathonRow(0, 1))
    /\ memberships = {}
    /\ entries = <<>>
    /\ friendships = <<>>
    /\ now = 0
    /\ req = Request("idle")
    /\ resp = Idle
    /\ atBuild = NoBuild
    /\ issued = {}

ModelsNext ==
    \/ \E u \in {"u1", "u2"} : User_create(u) \/ User_delete(u)
    \/ \E t \in {"t1", "t2"} : Team_create(t) \/ Team_delete(t)
    \/ \E h \in {"h1"} : Hackathon_create(h) \/ Hackathon_delete(h)
    \/ \E u \in {"u1", "u2"}, t \in {"t1", "t2"} : TeamMembership_create(u, t)
    \/ \E h \in {"h1"}, t \in {"t1", "t2"}, p \in {Unset, -2, 0, 1} :
          HackathonTeam_create(h, t, p)
    \/ \E u \in {"u1", "u2"}, f \in {"u1", "u2"} : Friendship_create(u, f)

SpecModels == ModelsInit /\ [][ModelsNext]_vars

-----------------------------------------------------------------------------
(* Requests under every pair of header and cookie *)

\* u1 and u2, each with a token, with the other's token or with none.
AuthenticationInit ==
    /\ users = [u \in {"u1", "u2"} |-> SeedUser(u, SignedUpProfile)]
    /\ tokens \in {("k1" :> "u1") @@ ("k2" :> "u2"), ("k1" :> "u2") @@ ("k2" :> "u1"),
                   ("k1" :> "u1"), ("k2" :> "u2"), <<>>}
    /\ teams = {}
    /\ hackathons = <<>>
    /\ memberships = {}
    /\ entries = <<>>
    /\ friendships = <<>>
    /\ now = 0
    /\ req = Request("idle")
    /\ resp = Idle
    /\ atBuild = NoBuild
    /\ issued = {}

\* GET /accounts/me and GET /init with no header, a Token header with a
\* key that may be a token's, a Token header without a key or a header of
\* another scheme, and with no cookie or a cookie that may be a token's.
AuthenticationNext ==
    \E header \in {NoHeader, [keyword |-> "Token", key |-> None]}
                    \cup {[keyword |-> w, key |-> k] :
                            w \in {"Token", "Bearer"}, k \in {"k1", "k2", "k3"}},
       cookie \in {None, "k1", "k2", "k3"} :
        \/ MeView_get([header |-> header, cookie |-> cookie])
        \/ InitView([header |-> header, cookie |-> cookie])

SpecAuthentication == AuthenticationInit /\ [][AuthenticationNext]_vars

-----------------------------------------------------------------------------
(* Signups and PATCH /accounts/me on the accounts they create *)

RegistrationInit ==
    /\ EmptyStore
    /\ now = 0
    /\ req = Request("idle")
    /\ resp = Idle
    /\ atBuild = NoBuild
    /\ issued = {}

\* POST /signup with an email that ends with .edu or not and a password of
\* seven or of five characters, for up to two accounts; PATCH /accounts/me
\* under the cookie of an account, with an email or a password that passes
\* validation or fails it.
RegistrationNext ==
    \/ /\ Cardinality(DOMAIN users) < 2
       /\ \E email \in {EmailText(<<"a">>, <<"x">>), <<"b", "@", "x", ".", "c", "o", "m">>},
             password \in {SeedPassword, <<"s", "h", "o", "r", "t">>} :
            SignupView_post(email, password, Absent)
    \/ \E k \in DOMAIN tokens,
          data \in {Body(EmailText(<<"c">>, <<"x">>), Absent, Absent, Absent),
                    Body(<<"z", "@", "x", ".", "c", "o", "m">>, Absent, Absent, Absent),
                    Body(Absent, <<"s", "e", "c", "r", "e", "t">>, Absent, Absent),
                    Body(Absent, <<"t", "i", "n", "y">>, Absent, Absent)} :
            MeView_patch(CookieOnly(k), data)

SpecRegistration == RegistrationInit /\ [][RegistrationNext]_vars

-----------------------------------------------------------------------------
(* Properties *)

\* C6: for integer query parameters parse_pagination returns
\* offset = max(offset, 0) and limit = max(min(limit, 50), 1): a negative
\* offset becomes 0, a limit above 50 becomes 50, a limit below 1 becomes 1,
\* values in range are returned unchanged, and an absent parameter counts as
\* offset 0, limit 10.
C6_PaginationClamps ==
    resp.op = "parse_pagination" =>
        LET o == QueryInt(req.offset, 0)
            l == QueryInt(req.limit, 10)
        IN  (o.ok /\ l.ok) =>
                /\ resp.page.ok
                /\ (o.val < 0 => resp.page.offset = 0)
                /\ (o.val >= 0 => resp.page.offset = o.val)
                /\ (l.val > 50 => resp.page.limit = 50)
                /\ (l.val < 1 => resp.page.limit = 1)
                /\ (l.val >= 1 /\ l.val <= 50 => resp.page.limit = l.val)
                /\ (req.offset = Absent => resp.page.offset = 0)
                /\ (req.limit = Absent => resp.page.limit = 10)

\* C6 witness: offset "-1" and limit "56" were parsed and clamped to (0, 50).
C6_Witness ==
    /\ resp.op = "parse_pagination"
    /\ req.offset = <<"-", "1">>
    /\ req.limit = <<"5", "6">>
    /\ resp.page = [ok |-> TRUE, offset |-> 0, limit |-> 50]

\* GET /init answered with the bootstrap payload.
InitAnswered == resp.op = "init" /\ resp.status = 200

\* The hackathons with end date >= now in which a team containing u is entered.
EligibleHackathons(u) ==
    {h \in DOMAIN hackathons :
        /\ hackathons[h].end_date >= now
        /\ \E t \in teams : <<u, t>> \in memberships /\ <<h, t>> \in DOMAIN entries}

ListedHackathons == {resp.hackathons[i].uuid : i \in 1..Len(resp.hackathons)}

\* The parts of C8 that do not depend on the order: at most 5 hackathons, all
\* eligible, each embedding a team of u's entered in it and that team's placement.
BootstrapHackathonsBasics(u) ==
    /\ Len(resp.hackathons) <= 5
    /\ ListedHackathons \subseteq EligibleHackathons(u)
    /\ \A i \in 1..Len(resp.hackathons) :
        LET p == resp.hackathons[i]
        IN  /\ Len(p.team) = 1
            /\ <<u, p.team[1].uuid>> \in memberships
            /\ <<p.uuid, p.team[1].uuid>> \in DOMAIN entries
            /\ p.placement = entries[<<p.uuid, p.team[1].uuid>>]

\* C8 as claimed: the bootstrap hackathons are at most 5 eligible hackathons,
\* the soonest-ending ones (no eligible hackathon left out ends earlier than a
\* listed one), each with u's team and its placement.
C8_SoonestEnding ==
    InitAnswered =>
        /\ BootstrapHackathonsBasics(resp.auth)
        /\ \A h \in EligibleHackathons(resp.auth) \ ListedHackathons :
            \A l \in ListedHackathons :
                ~(hackathons[h].end_date < hackathons[l].end_date)

\* C8 as amended: the bootstrap hackathons are at most 5 eligible hackathons,
\* the soonest-starting ones (no eligible hackathon left out starts earlier
\* than a listed one), each with u's team and its placement.
C8_SoonestStarting ==
    InitAnswered =>
        /\ BootstrapHackathonsBasics(resp.auth)
        /\ \A h \in EligibleHackathons(resp.auth) \ ListedHackathons :
            \A l \in ListedHackathons :
                ~(hackathons[h].start_date < hackathons[l].start_date)

\* C8 witness: five hackathons are listed with u's team, and one eligible
\* hackathon is left out.
C8_Witness ==
    /\ InitAnswered
    /\ Len(resp.hackathons) = 5
    /\ EligibleHackathons(resp.auth) \ ListedHackathons # {}
    /\ Len(resp.hackathons[1].team) = 1

\* The friendships in which u is either side.
FriendshipsWith(u) == {f \in DOMAIN friendships : f[1] = u \/ f[2] = u}

\* The friends of the payload are the (at most 5) most recently created
\* friendships of u: each names the other side of one, and for every second s
\* the friendships newer than s are listed, as far as 5 entries reach.
MostRecentFriendships(u) ==
    LET F == FriendshipsWith(u)
        L == resp.friends
    IN  /\ \A i \in 1..Len(L) :
            \E f \in F :
                /\ L[i].uuid = (IF f[1] = u THEN f[2] ELSE f[1])
                /\ L[i].friends_since = friendships[f] \div TicksPerSecond
        /\ \A s \in {-1} \cup {friendships[f] \div TicksPerSecond : f \in F} :
            Cardinality({i \in 1..Len(L) : L[i].friends_since > s})
                = Min(5, Cardinality({f \in F : friendships[f] \div TicksPerSecond > s}))

\* C9 as claimed: the bootstrap friends are the at most 5 most recent
\* friendships of u, listed oldest-first (friends_since non-decreasing).
C9_OldestFirst ==
    InitAnswered =>
        /\ MostRecentFriendships(resp.auth)
        /\ \A i, j \in 1..Len(resp.friends) :
            i < j => resp.friends[i].friends_since <= resp.friends[j].friends_since

\* C9 as amended: the bootstrap friends are the at most 5 most recent
\* friendships of u, listed newest-first (friends_since non-increasing).
C9_NewestFirst ==
    InitAnswered =>
        /\ MostRecentFriendships(resp.auth)
        /\ \A i, j \in 1..Len(resp.friends) :
            i < j => resp.friends[i].friends_since >= resp.friends[j].friends_since

\* C9 witness: u has more than 5 friendships, 5 are listed, and the first is
\* newer than the last.
C9_Witness ==
    /\ InitAnswered
    /\ Cardinality(FriendshipsWith(resp.auth)) > 5
    /\ Len(resp.friends) = 5
    /\ resp.friends[1].friends_since > resp.friends[5].friends_since


-----------------------------------------------------------------------------
(* Accounts *)

\* The email of a signup body belongs to a stored user: it is the user's
\* address as the User table holds addresses, with the domain in lower case.
Registered(db, email) ==
    ~Falsy(email) /\ \E u \in DOMAIN db : db[u].email = normalize_email(email)

\* C2: a POST /signup whose email already belongs to a stored user is
\* answered 400, creates no user and no token, sets no cookie, and leaves the
\* existing users as they were.
C2_DuplicateEmailRejected ==
    [][(req'.op = "signup" /\ resp' # resp /\ Registered(users, req'.email))
        => /\ resp'.status = 400
           /\ resp'.cookie = None
           /\ users' = users
           /\ tokens' = tokens]_vars

\* In the step the claim is refuted by: the body's email is stored only in its
\* normalised form, the exact-match check lets it through, and the insert
\* fails on the unique email column.
C2_ServerErrorOnDuplicate ==
    /\ resp.op = "signup"
    /\ resp.status = 500
    /\ ~Falsy(req.username)
    /\ ~IntegrityError(users, <<>>, req.username)
    /\ Registered(users, req.email)
    /\ ~email_registered(users, req.email)

\* A login or signup that succeeded.
LoggedIn ==
    \/ resp.op = "login" /\ resp.status = 200
    \/ resp.op = "signup" /\ resp.status = 201

\* C3: a successful login or signup for u sets an auth_token cookie, and a
\* later request that carries that cookie and no Authorization header is
\* authenticated as u and as nobody else.
C3_CookieAuthenticates ==
    /\ LoggedIn =>
        /\ resp.cookie # None
        /\ <<resp.cookie, resp.auth>> \in issued
        /\ resp.auth \in DOMAIN users
        /\ users[resp.auth].email = normalize_email(req.email)
    /\ \A c \in issued :
        authenticate(tokens, NoHeader, c[1]) = [outcome |-> "user", user |-> c[2]]
    /\ \A c \in issued :
        (resp.op = "init" /\ req.header = NoHeader /\ req.cookie = c[1])
            => resp.status = 200 /\ resp.auth = c[2]

\* GET /init answered for a cookie issued earlier, while another user holds
\* a cookie too.
C3_Witness ==
    /\ resp.op = "init"
    /\ resp.status = 200
    /\ req.header = NoHeader
    /\ \E c \in issued : c[1] = req.cookie /\ c[2] = resp.auth
    /\ \E c, d \in issued : c[2] # d[2]

\* The xp_needed ensure_user_defaults computes for a stored row.
DefaultNeeded(row) == compute_xp_needed(OrInt(row.level, 1), OrInt(row.xp, 0))

\* The users build_bootstrap_payload serialises for u: u and u's friends.
Serialised(u, fs) == {u} \cup {p[2] : p \in {q \in DOMAIN fs : q[1] = u}}

\* C10: building the bootstrap payload writes nothing to hackathons, teams,
\* memberships, entries, friendships or tokens and creates and deletes no
\* user; of a user it changes only profile_gradient, and only when the
\* stored gradient was empty, and xp_needed, and only when the stored value
\* was not the computed default.
C10_BuildIsARead ==
    atBuild.built =>
        LET before == atBuild.store[1]
        IN  /\ <<tokens, hackathons, teams, memberships, entries, friendships>>
                   = Tail(atBuild.store)
            /\ DOMAIN users = DOMAIN before
            /\ \A u \in DOMAIN users :
                /\ [users[u] EXCEPT !.profile_gradient = before[u].profile_gradient,
                                    !.xp_needed = before[u].xp_needed] = before[u]
                /\ users[u].profile_gradient # before[u].profile_gradient
                       => /\ before[u].profile_gradient = <<>>
                          /\ users[u].profile_gradient \in generate_gradient
                /\ users[u].xp_needed # before[u].xp_needed
                       => /\ before[u].xp_needed # DefaultNeeded(before[u])
                          /\ users[u].xp_needed = DefaultNeeded(before[u])
                /\ users[u] # before[u] => u \in Serialised(resp.auth, friendships)

\* A build that backfilled a friend's gradient and the user's own xp_needed.
C10_Witness ==
    /\ atBuild.built
    /\ \E u \in DOMAIN users :
        /\ u # resp.auth
        /\ users[u].profile_gradient # atBuild.store[1][u].profile_gradient
    /\ users[resp.auth].xp_needed # atBuild.store[1][resp.auth].xp_needed

-----------------------------------------------------------------------------
(* Protected endpoints *)

\* The views that require IsAuthenticated.
ProtectedOps ==
    {"init", "user-hackathons", "user-past-hackathons", "user-friends",
     "hackathon-search", "hackathon-leaderboard", "user-lookup", "user-history",
     "team-lookup", "team-history", "me-get", "me-patch"}

\* The views that call parse_pagination.
PaginatedOps ==
    {"user-hackathons", "user-past-hackathons", "user-friends", "hackathon-search",
     "hackathon-leaderboard", "user-history", "team-history"}

\* The response carries no data of the store: no list, profile or team.
NoData ==
    /\ resp.user = <<>>
    /\ resp.hackathons = <<>>
    /\ resp.friends = <<>>
    /\ resp.leaderboard = <<>>
    /\ resp.team = <<>>
    /\ resp.keys \subseteq {"detail"}

\* C4: a protected endpoint asked with no Authorization header and no
\* auth_token cookie answers 401 with no data, and the request changes
\* nothing in the store.
C4_UnauthenticatedRefused ==
    [][(req'.op \in ProtectedOps /\ req'.header = NoHeader /\ req'.cookie = None)
        => /\ resp'.status = 401
           /\ resp'.auth = None
           /\ resp'.user = <<>> /\ resp'.hackathons = <<>> /\ resp'.friends = <<>>
           /\ resp'.leaderboard = <<>> /\ resp'.team = <<>>
           /\ resp'.keys \subseteq {"detail"}
           /\ store' = store]_vars

\* Each protected endpoint has been refused once the store had been written
\* to: here the PATCH, after a PATCH by u1 changed the address.
C4_Witness ==
    /\ req.op = "me-patch"
    /\ req.header = NoHeader
    /\ req.cookie = None
    /\ req.email # Absent
    /\ resp.status = 401
    /\ users["u1"].email = EmailText(<<"z">>, <<"x">>)

\* The id names no row of the table the view looks up.
NoSuchRow ==
    \/ req.op \in {"user-lookup", "user-history"}
          /\ req.id \notin DOMAIN users \cup {None, Malformed}
    \/ req.op \in {"team-lookup", "team-history"}
          /\ req.id \notin teams \cup {None, Malformed}
    \/ req.op = "hackathon-leaderboard" /\ req.id \notin DOMAIN hackathons

\* An authenticated request whose pagination, where it has any, parses.
AuthenticatedLookup ==
    /\ resp.auth # None
    /\ req.op \in PaginatedOps => parse_pagination(req.offset, req.limit).ok

\* C5: an authenticated lookup of a user, team or hackathon id that names no
\* row is answered 404: user lookup, user history, team lookup, team history
\* and leaderboard.
C5_MissingLookupNotFound ==
    (AuthenticatedLookup /\ NoSuchRow) => resp.status = 404

\* The four lookups that do look the row up answer 404.
C5_UserAndTeamNotFound ==
    (AuthenticatedLookup /\ NoSuchRow /\ req.op # "hackathon-leaderboard")
        => resp.status = 404 /\ NoData

\* The query parameter is given and Python's int() refuses it.
Unparseable(raw) == raw # Absent /\ ~int(raw).ok

\* C7: a paginated endpoint asked, authenticated, with an offset or a limit
\* that is not an integer answers 400 and returns no list data.
C7_InvalidPaginationRejected ==
    (req.op \in PaginatedOps /\ resp.auth # None
        /\ (Unparseable(req.offset) \/ Unparseable(req.limit)))
        => resp.status = 400 /\ NoData

\* A history asked for a row that exists, with a limit that is not an integer.
C7_Witness ==
    /\ req.op = "team-history"
    /\ req.id \in teams
    /\ resp.auth = "u1"
    /\ req.offset = Absent
    /\ ~int(req.limit).ok
    /\ resp.status = 400

-----------------------------------------------------------------------------
(* Leaderboard *)

\* The leaderboard endpoint answered with a list.
LeaderboardAnswered == resp.op = "hackathon-leaderboard" /\ resp.status = 200

\* Every listed entry is an entry of the requested hackathon whose placement
\* is set, listed with that placement.
OnlyPlacedEntries ==
    \A i \in 1..Len(resp.leaderboard) :
        LET row == resp.leaderboard[i]
        IN  /\ <<req.id, row.uuid>> \in DOMAIN entries
            /\ entries[<<req.id, row.uuid>>] # Unset
            /\ row.placement = entries[<<req.id, row.uuid>>]

\* C1 as stated: the leaderboard holds only entries of that hackathon with a
\* placement set, in strictly ascending placement order.
C1_StrictlyAscending ==
    LeaderboardAnswered =>
        /\ OnlyPlacedEntries
        /\ \A i \in 1..(Len(resp.leaderboard) - 1) :
            resp.leaderboard[i].placement < resp.leaderboard[i + 1].placement

\* C1, amended: the leaderboard holds only entries of that hackathon with a
\* placement set, in non-decreasing placement order (teams may tie), each
\* team at most once.
C1_Ascending ==
    LeaderboardAnswered =>
        /\ OnlyPlacedEntries
        /\ \A i \in 1..(Len(resp.leaderboard) - 1) :
            resp.leaderboard[i].placement <= resp.leaderboard[i + 1].placement
        /\ \A i, j \in 1..Len(resp.leaderboard) :
            resp.leaderboard[i].uuid = resp.leaderboard[j].uuid => i = j

\* A list of two placements, while the hackathon has an entry without a
\* placement and another hackathon has a placed entry.
C1_Witness ==
    /\ LeaderboardAnswered
    /\ Len(resp.leaderboard) = 2
    /\ resp.leaderboard[1].placement < resp.leaderboard[2].placement
    /\ \E e \in DOMAIN entries : e[1] = req.id /\ entries[e] = Unset
    /\ \E e \in DOMAIN entries : e[1] # req.id /\ entries[e] # Unset

-----------------------------------------------------------------------------
(* Backfilling happens once *)

\* The response carries a bootstrap payload.
BuiltPayload(r) ==
    \/ r.op \in {"init", "login"} /\ r.status = 200
    \/ r.op = "signup" /\ r.status = 201

\* C11: once a bootstrap payload has been built for u, the next request, if
\* it builds the payload for u again, changes nothing in the store and
\* returns the same profile_gradient and xp_needed for u.
C11_SecondBuildChangesNothing ==
    [][(BuiltPayload(resp) /\ BuiltPayload(resp') /\ resp'.auth = resp.auth)
        => /\ store' = store
           /\ resp'.user[1].profile_gradient = resp.user[1].profile_gradient
           /\ resp'.user[1].xp_needed = resp.user[1].xp_needed]_vars

\* A build for u1 that found nothing to write, u1's gradient being one that
\* an earlier build drew.
C11_Witness ==
    /\ resp.op = "init"
    /\ resp.status = 200
    /\ resp.auth = "u1"
    /\ atBuild.built
    /\ atBuild.store[1] = users
    /\ users["u1"].profile_gradient = <<16777215, 0>>
    /\ users["u1"].xp_needed = 100
    /\ resp.user[1].profile_gradient = users["u1"].profile_gradient

-----------------------------------------------------------------------------
(* Past hackathons *)

\* The past-hackathon list of the response, for the five requests that
\* carry one.
PastListing ==
    IF resp.status # 200 THEN <<>>
    ELSE IF resp.op \in {"user-past-hackathons", "user-history", "team-history"}
    THEN resp.hackathons
    ELSE IF resp.op = "user-lookup" THEN resp.user[1].past_hackathons
    ELSE IF resp.op = "team-lookup" THEN resp.team[1].past_hackathons
    ELSE <<>>

\* The teams whose entries the list is about: the teams of the user asked
\* about, or the team asked about.
ListedTeams ==
    IF resp.op = "user-past-hackathons"
    THEN {t \in teams : <<resp.auth, t>> \in memberships}
    ELSE IF resp.op \in {"user-history", "user-lookup"}
    THEN {t \in teams : <<req.id, t>> \in memberships}
    ELSE {req.id}

\* C12: every past-hackathon listing holds only hackathons that ended
\* strictly before the time of the request and that a team of the user (or
\* the team itself) is entered in, most recent first: end dates are
\* non-increasing along the list.
C12_PastListings ==
    /\ \A i \in 1..Len(PastListing) :
        LET h == PastListing[i].uuid
        IN  /\ h \in DOMAIN hackathons
            /\ hackathons[h].end_date < now
            /\ PastListing[i].end_date = timestamp(hackathons[h].end_date)
            /\ \E t \in ListedTeams : <<h, t>> \in DOMAIN entries
    /\ \A i \in 1..(Len(PastListing) - 1) :
        /\ hackathons[PastListing[i].uuid].end_date
               >= hackathons[PastListing[i + 1].uuid].end_date
        /\ PastListing[i].end_date >= PastListing[i + 1].end_date

\* A history of two hackathons with different end dates, while a hackathon
\* the user's team is placed in ends at the time of the request.
C12_Witness ==
    /\ resp.op = "user-history"
    /\ Len(PastListing) = 2
    /\ hackathons[PastListing[1].uuid].end_date
           > hackathons[PastListing[2].uuid].end_date
    /\ \E e \in DOMAIN entries :
        /\ e[2] \in ListedTeams
        /\ entries[e] # Unset
        /\ hackathons[e[1]].end_date = now

-----------------------------------------------------------------------------
(* Hackathon search *)

SearchAnswered == resp.op = "hackathon-search" /\ resp.status = 200

\* The name holds the query somewhere, letters compared without their case.
ContainsIgnoringCase(name, query) ==
    \E i \in 0..(Len(name) - Len(query)) :
        \A j \in 1..Len(query) : LowerChar(name[i + j]) = LowerChar(query[j])

\* The hackathons a search for the request's query is to find.
Matching ==
    IF req.query \in {Absent, <<>>} THEN DOMAIN hackathons
    ELSE {h \in DOMAIN hackathons : ContainsIgnoringCase(hackathons[h].name, req.query)}

\* C13: a search with a non-empty query returns only hackathons whose name
\* contains the query, compared case-insensitively, and with an empty or
\* absent query nothing is filtered out; the page holds distinct hackathons
\* and as many as are left of the matching ones after the offset, up to the
\* limit, so that every matching hackathon is on the page that starts at 0
\* and is not full.
C13_SearchMatches ==
    SearchAnswered =>
        LET listed == {resp.hackathons[i].uuid : i \in 1..Len(resp.hackathons)}
        IN  /\ listed \subseteq Matching
            /\ Cardinality(listed) = Len(resp.hackathons)
            /\ Len(resp.hackathons)
                 = Min(resp.page.limit, Max(0, Cardinality(Matching) - resp.page.offset))
            /\ (resp.page.offset = 0 /\ Len(resp.hackathons) < resp.page.limit)
                 => listed = Matching

\* A query in another case than the names finds two of the three
\* hackathons, both on the default page.
C13_Witness ==
    /\ SearchAnswered
    /\ req.query = <<"h", "A">>
    /\ resp.page.offset = 0
    /\ Len(resp.hackathons) = 2
    /\ \E h \in DOMAIN hackathons : hackathons[h].name = <<"a", "h", "a">>
    /\ \E h \in DOMAIN hackathons : hackathons[h].name = <<"Z">>

\* The distinct users over all teams entered in h.
DistinctParticipants(h) ==
    {u \in DOMAIN users :
        \E m \in memberships : m[1] = u /\ <<h, m[2]>> \in DOMAIN entries}

\* C14: search results are ranked by distinct-participant count, highest
\* first: the participants value never increases along the list, and it is
\* the number of distinct users over all teams entered, a user in two
\* entered teams counted once.
C14_RankedByParticipants ==
    SearchAnswered =>
        /\ \A i \in 1..Len(resp.hackathons) :
            resp.hackathons[i].participants
                = Cardinality(DistinctParticipants(resp.hackathons[i].uuid))
        /\ \A i \in 1..(Len(resp.hackathons) - 1) :
            resp.hackathons[i].participants >= resp.hackathons[i + 1].participants

\* Three hackathons listed with falling participant counts, the first one
\* entered by both teams of u1.
C14_Witness ==
    /\ SearchAnswered
    /\ Len(resp.hackathons) = 3
    /\ resp.hackathons[1].participants > resp.hackathons[2].participants
    /\ resp.hackathons[2].participants > resp.hackathons[3].participants
    /\ \A t \in {"t1", "t2"} : <<resp.hackathons[1].uuid, t>> \in DOMAIN entries

-----------------------------------------------------------------------------
(* Validation errors of the user mapper *)

\* The fields of the validated body that are invalid, or required and
\* missing on POST.
OffendingFields ==
    LET d == req.data
    IN  {k \in DOMAIN d :
            \/ req.method = "POST" /\ d[k] = Absent
                  /\ k \in {"email", "username", "visibility", "password"}
            \/ k = "email" /\ d[k] # Absent /\ ~endswith(d[k], Edu)
            \/ k = "password" /\ d[k] # Absent /\ Len(d[k]) < 6
            \/ k = "visibility" /\ d[k] \notin {Absent, <<"public">>, <<"private">>}
            \/ k = "xp" /\ d[k] # Absent /\ (~int(d[k]).ok \/ int(d[k]).val < 0)
            \/ k = "level" /\ d[k] # Absent
                  /\ (~int(d[k]).ok \/ int(d[k]).val < 0 \/ int(d[k]).val > 500)}

\* C15: when data fails validation in the user mapper, the error mapping
\* has an entry for every offending field, a required field missing on POST
\* and any other invalid field included.
C15_AllErrorsCollected ==
    resp.op = "to_internal_value" => resp.keys = OffendingFields


-----------------------------------------------------------------------------
(* PATCH /accounts/me that fails validation *)

\* The PATCH body r carries a field that is invalid: r.query holds the xp
\* and the level of the body.
FailsValidation(r) ==
    \/ r.email # Absent /\ ~endswith(r.email, Edu)
    \/ r.password # Absent /\ Len(r.password) < 6
    \/ r.query[1] # Absent /\ (~int(r.query[1]).ok \/ int(r.query[1]).val < 0)
    \/ r.query[2] # Absent
          /\ (~int(r.query[2]).ok \/ int(r.query[2]).val < 0 \/ int(r.query[2]).val > 500)

-----------------------------------------------------------------------------
(* The rows between users, teams and hackathons *)

\* C17: in every reachable store, the placement of every hackathon-team
\* entry is unset or a positive rank, an integer of at least 1; no entry is
\* stored with placement 0 or a negative placement.
C17_PlacementPositiveOrUnset ==
    \A e \in DOMAIN entries : entries[e] = Unset \/ entries[e] >= 1

\* C18: no friendship, membership or hackathon-team entry refers to a user,
\* team or hackathon that does not exist, and what a delete() reports as
\* deleted is gone: after deleting a user no friendship has the user on
\* either side and no membership is the user's; after deleting a team no
\* membership and no entry is the team's; after deleting a hackathon no
\* entry is the hackathon's.
C18_ReferentialIntegrity ==
    /\ \A f \in DOMAIN friendships : f[1] \in DOMAIN users /\ f[2] \in DOMAIN users
    /\ \A m \in memberships : m[1] \in DOMAIN users /\ m[2] \in teams
    /\ \A e \in DOMAIN entries : e[1] \in DOMAIN hackathons /\ e[2] \in teams
    /\ \A k \in DOMAIN tokens : tokens[k] \in DOMAIN users
    /\ resp.op = "delete-user" =>
        /\ req.id \notin DOMAIN users
        /\ \A f \in DOMAIN friendships : req.id \notin {f[1], f[2]}
        /\ \A m \in memberships : m[1] # req.id
    /\ resp.op = "delete-team" =>
        /\ req.id \notin teams
        /\ \A m \in memberships : m[2] # req.id
        /\ \A e \in DOMAIN entries : e[2] # req.id
    /\ resp.op = "delete-hackathon" =>
        /\ req.id \notin DOMAIN hackathons
        /\ \A e \in DOMAIN entries : e[1] # req.id

\* A user who was the friend side of a friendship and a member of a team
\* was deleted, and rows of the other user remain.
C18_Witness ==
    /\ resp.op = "delete-user" /\ req.id = "u2"
    /\ {"Friendship", "TeamMembership"} \subseteq resp.keys
    /\ DOMAIN friendships = {<<"u1", "u1">>}
    /\ <<"u1", "t1">> \in memberships
    /\ DOMAIN entries # {}

-----------------------------------------------------------------------------
(* Header first, cookie second *)

\* The request's Authorization header carries credentials of the token
\* scheme.
HeaderCredentials == req.header.keyword = "Token"

\* C19: the Authorization header is tried first and the auth_token cookie
\* second.  When the header yields a user, that user is authenticated
\* whatever the cookie holds; a header with credentials that yield no user
\* is refused without the cookie being consulted; without header
\* credentials the cookie decides: a token's cookie authenticates the
\* token's user, no cookie or a cookie that is no user's token
\* authenticates nobody.
C19_HeaderThenCookie ==
    resp.op \in {"me-get", "init"} =>
        IF HeaderCredentials
        THEN IF req.header.key \in DOMAIN tokens
             THEN resp.status = 200 /\ resp.auth = tokens[req.header.key]
             ELSE resp.status = 401 /\ resp.auth = None
        ELSE IF req.cookie \in DOMAIN tokens
             THEN resp.status = 200 /\ resp.auth = tokens[req.cookie]
             ELSE resp.status = 401 /\ resp.auth = None

\* A request with u1's token in the header and u2's token in the cookie
\* was answered as u1.
C19_Witness ==
    /\ resp.op = "me-get" /\ resp.status = 200
    /\ HeaderCredentials
    /\ req.header.key \in DOMAIN tokens /\ tokens[req.header.key] = "u1"
    /\ req.cookie \in DOMAIN tokens /\ tokens[req.cookie] = "u2"
    /\ resp.auth = "u1"

-----------------------------------------------------------------------------
(* Signup without an email or a password *)

\* C20: a signup request that lacks an email or lacks a password is
\* answered 400 and creates no user and no token, whichever of email,
\* password and username are present, email and username both absent
\* included.
C20_MissingCredentialsRejected ==
    [][(req'.op = "signup" /\ (Falsy(req'.email) \/ Falsy(req'.password)))
        => /\ resp'.status = 400
           /\ users' = users
           /\ tokens' = tokens]_vars


-----------------------------------------------------------------------------
(* xp_needed of a serialised profile *)

\* The response carries a profile built by serialize_user_core.
CoreProfile ==
    /\ resp.op \in {"init", "login", "signup", "user-lookup"}
    /\ resp.user # <<>>

\* C21: every profile serialize_user_core produces reports
\* xp_needed = max(max(level, 1) * 100 - xp, 0) for the level and the xp of
\* the same payload, never a negative one, and after the call the stored
\* xp_needed of that user is the same value, whatever was stored before.
C21_XpNeededRecomputed ==
    CoreProfile =>
        LET p      == resp.user[1]
            target == (IF p.level > 1 THEN p.level ELSE 1) * 100
            needed == IF target - p.xp > 0 THEN target - p.xp ELSE 0
        IN  /\ p.xp_needed = needed
            /\ p.xp_needed >= 0
            /\ users[p.uuid].xp_needed = needed
            /\ users[p.uuid].xp = p.xp
            /\ users[p.uuid].level = p.level

\* After a PATCH set u1's xp to 5 and left the stored xp_needed at 100, GET
\* /init reports 95 and the store holds 95.
C21_Witness ==
    /\ CoreProfile
    /\ resp.op = "init" /\ resp.auth = "u1"
    /\ resp.user[1].xp = 5
    /\ resp.user[1].xp_needed = 95
    /\ users["u1"].xp_needed = 95

-----------------------------------------------------------------------------
(* The frame of a valid PATCH /accounts/me *)

\* The fields of a user row the PATCH body r leaves out: r.query holds the
\* xp and the level of the body; the bodies of the model never carry a
\* username, an xp_needed or a profile_gradient.
FieldsAbsent(r) ==
    {"username", "xp_needed", "profile_gradient"}
        \cup {k \in {"email"} : r.email = Absent}
        \cup {k \in {"password"} : r.password = Absent}
        \cup {k \in {"xp"} : r.query[1] = Absent}
        \cup {k \in {"level"} : r.query[2] = Absent}

\* C22: a valid PATCH /accounts/me changes only the fields present in its
\* body: every field of the user that is absent from the body keeps its
\* prior value, no other user is modified, and no other table is written.
C22_PatchFrame ==
    [][(req'.op = "me-patch" /\ resp'.status = 200)
        => /\ DOMAIN users' = DOMAIN users
           /\ \A u \in DOMAIN users \ {resp'.auth} : users'[u] = users[u]
           /\ \A k \in FieldsAbsent(req') : users'[resp'.auth][k] = users[resp'.auth][k]
           /\ tokens' = tokens
           /\ tables' = tables]_vars

\* A PATCH with a new email and no xp was accepted for u1, whose xp an
\* earlier PATCH had set to 5 and whose xp_needed is still the 100 of the
\* signup.
C22_Witness ==
    /\ resp.op = "me-patch" /\ resp.status = 200 /\ resp.auth = "u1"
    /\ req.email # Absent /\ req.query[1] = Absent
    /\ users["u1"].email = req.email
    /\ users["u1"].xp = 5
    /\ users["u1"].xp_needed = 100

-----------------------------------------------------------------------------
(* The validation rules on stored accounts *)

\* C23: after any sequence of signups and PATCH /accounts/me requests,
\* every stored user has an email that ends with ".edu" and a password that
\* was set from at least 6 characters.
C23_StoredAccountsValid ==
    \A u \in DOMAIN users :
        LET raw == SubSeq(users[u].password, 2, Len(users[u].password))
        IN  /\ endswith(users[u].email, Edu)
            /\ users[u].password = make_password(raw)
            /\ Len(raw) >= 6


-----------------------------------------------------------------------------
(* Hackathons listed once *)

\* C24: the hackathon lists returned for a user (bootstrap hackathons, GET
\* /user/hackathons, GET /user/past-hackathons) hold each hackathon at most
\* once within one response, also when the user belongs to two teams that
\* are both entered in the same hackathon.
C24_HackathonsListedOnce ==
    (/\ resp.op \in {"init", "login", "signup", "user-hackathons", "user-past-hackathons"}
     /\ resp.status \in {200, 201})
        => \A i, j \in 1..Len(resp.hackathons) :
              resp.hackathons[i].uuid = resp.hackathons[j].uuid => i = j

-----------------------------------------------------------------------------
(* The embedded team and its placement *)

\* C26: in every hackathon payload that embeds the requesting user's team
\* (bootstrap, GET /user/hackathons, GET /user/past-hackathons, search),
\* the reported placement is the placement of the embedded team in that
\* hackathon: the pair of team and placement is the one of a stored entry
\* of the hackathon.
C26_PlacementOfEmbeddedTeam ==
    (/\ resp.op \in {"init", "login", "signup", "user-hackathons",
                     "user-past-hackathons", "hackathon-search"}
     /\ resp.status \in {200, 201})
        => \A i \in 1..Len(resp.hackathons) :
              LET p == resp.hackathons[i]
              IN  p.team # <<>> =>
                    /\ <<p.uuid, p.team[1].uuid>> \in DOMAIN entries
                    /\ entries[<<p.uuid, p.team[1].uuid>>] = p.placement

-----------------------------------------------------------------------------
(* The two past-hackathon views of a user *)

\* The hackathons of a response in their order, each with its placement.
ListedPlacements(r) ==
    [i \in 1..Len(r.hackathons) |-> <<r.hackathons[i].uuid, r.hackathons[i].placement>>]

\* C27: GET /user/past-hackathons requested by u and, on the same store,
\* at the same time and with the same offset and limit, GET
\* /user/lookup/{u}/history return the same hackathons in the same order
\* with the same placements, entries whose placement is unset included.
C27_PastViewsAgree ==
    [][(/\ resp.op = "user-past-hackathons" /\ resp.status = 200
        /\ resp'.op = "user-history" /\ resp'.status = 200
        /\ req'.id = resp.auth
        /\ resp'.page = resp.page)
        => ListedPlacements(resp') = ListedPlacements(resp)]_vars

-----------------------------------------------------------------------------
(* Friends listed once *)

\* C25: the friends lists returned for a user u (bootstrap friends and GET
\* /user/friends) name each other user at most once and never u itself,
\* for every set of stored friendships, both ordered pairs of two users
\* included; each listed user is a friend of u by a friendship stored in
\* either direction.
C25_FriendsListedOnce ==
    (/\ resp.op \in {"init", "login", "signup", "user-friends"}
     /\ resp.status \in {200, 201})
        => /\ \A i, j \in 1..Len(resp.friends) :
                resp.friends[i].uuid = resp.friends[j].uuid => i = j
           /\ \A i \in 1..Len(resp.friends) :
                /\ resp.friends[i].uuid # resp.auth
                /\ \/ <<resp.auth, resp.friends[i].uuid>> \in DOMAIN friendships
                   \/ <<resp.friends[i].uuid, resp.auth>> \in DOMAIN friendships
=============================================================================
